# TLA+ models of flexflow-train

This directory holds TLA+ models of the parts of flexflow-train that a model checker
can say something useful about. Every module, the TLC configurations that check it,
and `PROJECT.json` are kept next to each other. `PROJECT.json` records:
- which definition models which source lines ("map");
- what each run checks ("runs");
- the mutants that show each property can fail ("mutants");
- what the runs found ("findings");
- the hazards of the code ("hazards").

## The system

The repository is a slice of FlexFlow's training compiler and runtime (C++). Its parts:

| Part | Source | What it does |
|---|---|---|
| Search driver | `lib/compiler/.../get_optimal_machine_mapping_with_memory.cc` | Recursive, memoized search for the Pareto frontier (runtime, memory) of machine-view assignments over a series-parallel problem tree |
| Result algebra | declared in `machine_mapping_result.h`; not under `src/` | Frontiers, `series_combine`, `parallel_combine`, `minimize_runtime` |
| Result cache | not under `src/` | Map from `MachineMappingState` (tree, resources, constraints) to result |
| Problem tree, constraints | not under `src/` | Immutable input; per-leaf-path pinned views |
| Cost estimator | `cost_estimator.cc` | Delegates to an implementation; the test uses a fake table |
| Op-attrs shape inference | `lib/op-attrs/...` | Pure shape and parallel-degree functions |
| Computation graph | `lib/pcg/.../computation_graph.cc` | Layer/tensor graph builder |
| Task-spec op tasks | `lib/task-spec/...` | Task bindings and index arithmetic of individual operators |
| Kernels, local execution | `lib/kernels`, `lib/local-execution` | Device-state lifecycle, dimension conversions, argument accessor |
| Models | `lib/models` | Glue that builds BERT / Inception graphs |

**How the search works.** A top-level call hands the search driver a tree, a machine
and constraints.
- **Cache.** Each call first loads the cache (lines 40-46). On a miss it dispatches on
  the node kind and saves the result before returning (line 68).
- **Series split.** It enumerates every assignment of views to the source boundary
  leaves (outer loop) and to the destination boundary leaves (inner loop). For each
  pair it:
  - solves the left child under the constraints augmented with the source assignment;
  - solves the right child the same way with the destination assignment;
  - estimates the cost of the concretized tensor movement;
  - folds `series_combine` into the result with `minimize_runtime`.
- **Parallel split.** It solves the same two children as a series split with no
  movement on the same machine (strategy (a)). It then solves them on every resource
  split and combines each with `parallel_combine` (strategy (b)). It returns the
  frontier of both strategies.
- **Leaf.** It estimates the pinned view, or every allowed view.

Infeasibility is the empty frontier. Failed lookups and conflicting constraints throw.

## Modules

| Module | Models | Kind |
|---|---|---|
| `MMProblemTree` | Problem tree, BinaryTreePath lookup, leaf paths, tensor movements, concretization | Operators (from the spec) |
| `MMConstraints` | MachineMappingConstraints: unconstrained, restrict to child, with_additional_constraints, require_only_root | Operators (from the spec) |
| `MMResult` | Frontiers, Pareto pruning, minimize_runtime, series/parallel combine | Operators (from the spec) |
| `MachineMappingAbstract` | What a call promises: `AllPlans` (RECURSIVE reference enumeration of every plan) and `IsOptimalFrontier`, the reference `CacheSound` checks against | Reference definitions |
| `MachineMapping` | The search itself (translated from the `.cc`), composing the three operator modules and instantiating the reference definitions | State machine |
| `MCMachineMapping` | The unit test's context (views, fake estimator, allowed views) and the trees the runs use | MC module |
| `ParallelTensorShape` | TensorShape / ParallelTensorShape, the helpers of `parallel_tensor_shape.h`, and the legion/ff index conversions of `kernels/legion_dim.cc` | Operators |
| `OpShapeInference` | Every function of `op-attrs/ops/{conv_2d,batch_matmul,combine,embedding,layer_norm,batch_norm}.cc`, `parse_attention_input_shape` and `datatype.cc` | Operators |
| `ShapeInference` | One action per shape-inference call; a state is the caller idle or the last call's arguments and results | State machine |
| `SplitBlockSize` | `calc_block_size` and the block sizes the split tasks compute (`task-spec/ops/split.cc`) | Operators |
| `SplitTask` | The forward/backward split task bodies on bare dims, against a reference of the block sizes | State machine |
| `MCSplitTask` | A 2 x 3 and a 1 x 1 input and three splits | MC module |
| `ComputationGraph` | `add_layer`, `add_input_layer` and `add_input_layer_with_grad` of `pcg/computation_graph.cc`, for input and Conv2D layers; the incoming-tensor role queries as operators | State machine |
| `MCComputationGraph` | An image, kernel and bias shape and 1 x 1 convolutions | MC module |
| `OpTasks` | The `LocalTaskArgumentAccessor` and the bindings and init/forward/backward task bodies of `task-spec/ops/{batch_matmul,pool_2d,concat,split}.cc` | State machine |
| `TaskSignatureImpl` | `task_signature_impl.cc`: the task-id switch, the three invocation visitors, `get_task_ids`; and the `get_task_ids` overloads of the operator files | Operators |
| `MCOperators` | Composes `ShapeInference` and `OpTasks` under one caller (either one runs while the other is idle). Small attrs and parallel input shapes for every shape-inference operator; batch matmul shapes with n, m, p in 1..2, four pool attrs on 4-d and 3-d inputs, concats of 1 to 3 inputs | MC module |

### MachineMapping: state and actions

The recursion is an explicit call stack, so the order of recursive calls, cache
operations and estimator calls is the code's. Its variables:
- `stack`: one frame per activation of the four overloads:
  - `entry`: the cached entry point;
  - `series`, with the loop state `todoPre`, `pre`, `preRes`, `todoPost`, `post`, `acc`;
  - `parallel`, with `seriesRes`, the remaining splits, the current split, `leftRes`
    and `results`;
  - `leaf`.
- `ret`: the value the last popped frame returned.
- `cache`.
- `estimates`: calls to `estimate_cost`.
- `calls`, `answers` and `estimatesAtAnswer`: the caller's view.
- `error`: the exception that aborted the call, if any.

The actions, with the lines of `get_optimal_machine_mapping_with_memory.cc` they model:
- Caller: `CallTop` and `TopReturn` (the test's calls).
- Entry point: `CacheHit` (40-46), `Visit` (48-66), `CacheSave` (68-69).
- Leaf: `SolveLeaf` (233-264), which covers the candidates, one estimate per candidate
  and the frontier.
- Series:
  - `SeriesAssignments` (81-100, 143, 150-151);
  - `SeriesLookupFails`: `.value()` / `.get<>` throws at 88-92;
  - `SeriesEvalPre` (102-117) and `SeriesPreReturned`;
  - `SeriesEvalPost` (119-134);
  - `SeriesConstraintConflict`: `with_additional_constraints` throws;
  - `SeriesCombineStep` (156-168): concretize, estimate, combine, minimize;
  - `SeriesPostDone` and `SeriesReturn` (169-172).
- Parallel:
  - `ParallelStrategyA` (185-199) and `ParallelSeriesReturned`;
  - `ParallelEvalLeft`, `ParallelEvalRight` and `ParallelCombineStep`
    (`evaluate_resource_split`, 206-227);
  - `ParallelReturn` (229-230).

The unordered sets the loops run over have no fixed iteration order, so each loop
picks its next element nondeterministically. TLC therefore checks every order.

**The boundary lookup** is modelled as the code does it: the path is resolved in the
series node (`MachineMappingProblemTree{series_split}`). `AllPlans`, the reference,
resolves it in the child the path points into. That follows the spec (section 3) and
the problem-tree builder's test, which gives `[]` for both sides of a two-layer series.

### Shape inference, split task and computation graph

- **Results.** A function returning `tl::expected` yields `Ok(v)` or `Unexpected`.
  An `assert`, a `throw`, or a `positive_int` / `nonnegative_int` built from an
  out-of-range value yields `Aborted`. Error messages are dropped.
- **ShapeInference.** Each action (`InferConv2D`, `InferBatchMatmul`, `InferCombine`,
  `InferEmbedding`, `InferLayerNorm`, `InferBatchNorm`, `ParseAttentionInputs`,
  `QueryPromotion`) picks attrs and parallel inputs from the constant sets. It records
  the parallel results next to the sequential results on the reduced inputs, with the
  operator's incoming-tensor roles and initializers. `Return` makes the caller idle
  again. The functions are pure, so nothing else is state.
- **SplitTask.** `ForwardTask` and `BackwardTask` compute the block sizes that the
  task passes to the split kernel, exactly as `calc_block_size` does: the loop runs to
  the element count, and each index goes through `dim_at_idx` with a legion index.
- **ComputationGraph.** Layers and tensors are sequences numbered in insertion order.
  `AddLayer` takes any existing tensor as input and any list of up to two existing
  tensors as weights, as `add_layer` does. It throws, adding nothing, when the Conv2D
  output size is below 1. The properties read the graph through
  `GetIncomingTensorsWithRole` (its assert included), `GetIncomingInputs` and
  `GetIncomingWeights`, as the code's callers do. The op dispatchers `get_output_shapes`, `get_weight_shapes`
  and `get_incoming_tensor_roles` are not in the repository. They are taken to call
  the Conv2D functions.

### OpTasks: operator tasks through the argument accessor

- **Binding and backing.** An invocation binds slots to tensors (`input_tensor(i)`,
  `output_tensor(i)`, all inputs for concat) and arguments. The executor backs every
  bound tensor slot with a FORWARD buffer and, for a backward task, also a GRADIENT
  buffer of the same shape (`Backing`).
- **Accessor.** `GetTensor` / `GetVariadicTensor` / `GetArgument` are
  `local_task_argument_accessor.cc`. A missing slot or tensor type (`unordered_map::at`)
  or a single read of a variadic slot aborts the task. A tensor read with privilege RW
  is writable.
- **Tasks.** Each action (`BatchMatmulForward`, `BatchMatmulBackward`, `Pool2DInit`,
  `Pool2DForward`, `Pool2DBackward`, `ConcatForward`, `ConcatBackward`,
  `SplitForward`, `SplitBackward`) builds the
  binding the code builds, runs the impl on the accessor, and records the kernel call
  it makes: the accessors passed, by parameter, and the integer arguments. Failed reads
  and ASSERTs give `Aborted`. `Return` makes the caller idle.
- **Dispatch.** Every action is guarded by its operator being in the list of the
  visitor that would build its invocation (`get_init_op_task_invocation` and so on),
  and runs the impl that `get_task_signature_and_impl_for_task_id` returns for the
  invocation's task id. The task id's signature (`get_*_signature`: its tensor slots,
  variadic or not, and its argument slots) is recorded next to the binding.
- **Shapes.** A batch matmul's output shape is what `get_output_shape` infers for its
  inputs. The pool backward task's per-device state is what `Pool2DInit` returns on the
  same attrs and shapes. The split tasks compute their block sizes with
  `SplitBlockSize`, on the shapes read from the accessor.

### Data abstraction

- Runtimes are integers in tenths of a millisecond. The test's forward and backward
  runtimes are always equal, so one number stands for both.
- A machine specification is abstracted to its node count. Allowed views and resource
  splits are constant operators of it.
- Operators and views are model values. A tensor movement keeps only its boundary
  paths; shapes do not influence the search.
- `ParallelSplitTransformation` is carried in the frame but has no effect. The spec
  (section 10) says to treat it as opaque.

## Properties

- `TypeOK`: every variable holds a value of its kind.
- `CacheSound`: every cached entry is an optimal frontier of its own
  (tree, resources, constraints). This means one plan per Pareto-optimal cost of
  `AllPlans`, and every point is a real plan whose mapping achieves its cost and
  respects the pins. It is checked in every reachable state, over every loop order,
  and after an aborted call.
- `IdempotentCall`: a second call on the same cache returns the same frontier with
  no estimator call (spec property 4).
- `Termination`: `<>Done`. Every call returns or throws.
- `NoFatalError`: no lookup or constraint helper throws, so a call on a tree the
  problem-tree builder makes reaches an answer.
- `InfeasiblePreSkipsEstimator` (action property): while a series frame is in its
  post loop for an infeasible pre result, no step calls the estimator, neither in the
  post child's recursion nor for the movement across the split (spec section 4.2).
- `TestParallelExpectation`: the unit test's expected frontier for two layers in
  parallel.
- `ParallelAgreesWithSequential`: a successful parallel inference reduces to the
  sequential result, for the output and for every weight, and the sequential
  inference then succeeds too.
- `DegreeConserved`: every output and weight of a successful parallel inference has
  the input's total parallel degree; for combine it is divided by `combine_degree`.
- `WeightsMatchRolesAndInitializers`: when the input passes an operator's checks,
  `get_weight_shapes` (sequential and parallel), the WEIGHT roles and
  `get_initializers` agree on the number of weights.
- `StrictPromotionWidens`: a strict datatype promotion is irreflexive, antisymmetric
  and transitive. It widens `size_of_datatype` and is allowed by the torch relation.
- `Conv2DOutputCountsWindows`: the sequential conv2d output size is the number of
  kernel positions in the padded input.
- `BlockSizesMatchReference`: a Split task on a valid split completes and passes the
  kernel `num_blocks` and block sizes computed from the FF dims.
- `WeightsAsExpected`: for every Conv2D layer, `get_incoming_weights` passes its
  assert (incoming tensors and roles agree in number) and returns tensors of the
  shapes `get_weight_shapes` gives for its input.
- `InvokedTaskRegistered`: every task a visitor invokes is among the task ids that
  `get_task_ids` registers for its operator.
- `BindingDeclaredBySignature`: an init or forward binding binds exactly the tensor
  slots (with their variadic flag) and argument slots of the signature that the
  dispatcher returns for its task id.
- `ForwardWritesOnlyOutputs`: every kernel a forward task calls may write only FORWARD
  buffers of output slots (batch matmul, pool, concat and split).
- `BatchMatmulKernelWithinBuffers`: a batch matmul kernel that runs gets `m`, `n`, `k`
  and `batch` whose products are exactly the element counts of the buffers it is given.
- `BackwardWritesOnlyGradients`: every `*_grad` parameter of a backward kernel is a
  GRADIENT buffer, and a backward kernel writes only GRADIENT buffers.

## Runs

| Run | cfg | Expect | What it shows |
|---|---|---|---|
| search | `MCSearch.cfg` | pass | An infeasible subtree in series before a tree with scarce views on both boundaries, on 3 nodes, called twice (546 states): every cache entry and both answers are optimal, the second call costs no estimate, and the search terminates |
| pinned | `MCPinned.cfg` | pass | Caller pins on two boundary leaves of a tree with a builder-shaped series pair inside, behind NestedTree (261 states): depending on the loop order the search ends in the `with_additional_constraints` throw or in the boundary lookup throw (finding 1), every entry left in the cache is correct and respects the pins |
| wrong_leaf | `MCWrongLeaf.cfg` | violation | With operator-dependent allowed views, the lookup takes the wrong leaf's views, and the cache holds a plan that uses a disallowed view (code bug) |
| test_parallel | `MCTestParallel.cfg` | violation | The test expects parallel memory to be the max (2 bytes); the spec says sum (3 bytes) |
| operators | `MCOperators.cfg` | pass | Every shape-inference call and every batch matmul, pool, concat and split task on the bounded inputs (6870 states): parallel inference reduces to sequential, degrees are conserved, weights agree with roles and initializers, strict promotion widens, forward kernels write only outputs, batch matmul kernels address exactly their buffers, and every invoked task is registered |
| conv_window | `MCConvWindow.cfg` | violation | Input 2, kernel 3, stride 2: conv2d returns height 1 where the kernel fits nowhere (code bug) |
| split_block | `MCSplitBlock.cfg` | violation | The Split task throws on a valid 2 x 3 split (code bug) |
| graph_weights | `MCGraphWeights.cfg` | violation | `add_layer` accepts a Conv2D layer whose weights have the wrong shape or count (code bug) |
| pool_backward | `MCPoolBackward.cfg` | violation | The Pool2D backward kernel gets the forward output as `output_grad` and writes the forward input as `input_grad` (code bug) |
| short_circuit | `MCShortCircuit.cfg` | violation | The search run's tree, called once: after the k2 leaf is infeasible on one node, the search still solves the k1 leaf after it and estimates the movement (spec divergence) |
| signature_binding | `MCSignature.cfg` | violation | The batch matmul forward binding binds `ITERATION_CONFIG`, which its signature does not declare (code bug) |
| builder_lookup | `MCBuilderLookup.cfg` | violation | The builder's two-layer series tree (paths `[]` in each child) on 3 nodes: the first boundary lookup throws, and the call never answers (finding 1) |

**Bounds.** The bounds are two views and two operators (the test's), 2 or 3 nodes,
trees of 2 to 8 leaves, and 1 or 2 top-level calls. They are enough because:
- every node kind occurs;
- a parallel split has more than one resource split (3 nodes), so its loop order
  matters;
- a series split has 2×2 boundary assignments;
- identical sub-problems recur, so the cache is both hit and missed;
- the leaf sets are empty in some places (infeasibility).

Larger trees only repeat these cases.

**Bounds of the operators run (shape inference).**
- Every parallel degree is 1 or 2, so every degree check can pass and fail. The
  sizes are distinct (2, 3, 4), so a dim read from the wrong position changes the
  result.
- Each operator also gets inputs that fail its checks: wrong rank, wrong datatype,
  an out-of-range axis, and a kernel larger than the padded input.
- Embedding inputs have sum degree 1: token ids carry no partial sums (see hazards).

**Bounds of the operators run (tasks).** Batch matmul shapes have batch 2 and n, m, p in 1..2,
so square and non-square products both occur. Pool attrs vary kernel, stride, pool
type and activation. One pool input is 3-d, so the init task's 4-d reads fail.
Concats have 1 to 3 inputs against `MAX_NUM_INPUTS` = 2, so the bound is reached and
exceeded. Splits are a 2 x 3 input split in two along dim 0, whose tasks abort in
`calc_block_size` (finding 4), and a single element split along either dim, whose
tasks reach the kernel. The two halves share a caller: one runs only while the other is idle, so
their state counts add instead of multiplying.

**Bounds of the violation runs.** The split run uses a 2 x 3 and a 1 x 1 input. The
graph run uses 3 layers, enough for an input, a weight and a Conv2D layer.
`CHECK_DEADLOCK FALSE` there marks the layer bound; it is not a stop of the system.

**Fairness.** The search is single-threaded and waits on nothing but itself, so
`WF_vars(Next)` is justified. `CHECK_DEADLOCK FALSE` is set because the search really
stops once every call has returned or one has thrown. `Termination` checks that it
always gets there.

## Findings

1. **Boundary lookup on the wrong node** (lines 88-92). Paths are relative to the
   child but are resolved from the series node.
   - For the builder's own two-layer tree, `[]` names the series node and the
     search throws at the first series split with boundary views. The
     builder_lookup run shows it against `NoFatalError`; the pinned
     run reaches the same throw (`SeriesLookupFails`) and checks the cache it leaves.
   - Where a path happens to name a leaf from the split as well, the search silently
     uses that other leaf's allowed views.
   - The unit test hides this because its `movement1` has no boundary views.
2. **Parallel memory.** The unit test expects `max` of the branch memories; the spec
   says the sum.
3. **Conv2D output size** (`conv_2d.cc:62`). The output size is computed with
   truncating division, so a kernel that does not fit gives output 1 instead of an
   error.
4. **Split block sizes** (`split.cc:59-84`).
   - The loop runs to the element count, and `dim_at_idx` throws past the last dim.
     Any real tensor aborts the task.
   - The loop compares a legion index with an ff axis.
   - All out block sizes come from output 0.
5. **Unchecked weights** (`computation_graph.cc:54`). `add_layer` computes
   `expected_weight_shapes` and never uses them.
6. **Pool2D backward reads forward tensors** (`pool_2d.cc:148-150`). `output_grad` is
   read with `get_tensor<RO>(OUTPUT)` and `input_grad` with `get_tensor<RW>(INPUT)`,
   so the kernel reads the forward output as the gradient and overwrites the forward
   input. Batch matmul and concat use `get_tensor_grad` there.
7. **Batch matmul binding outside its signature** (`batch_matmul.cc:49`). The forward
   binding binds the argument `ITERATION_CONFIG`, which
   `get_batch_matmul_fwd_signature` does not declare, so a check of the binding
   against the signature fails. The forward and backward impls read it (lines 75 and
   127), so it is the signature that is incomplete.
8. **No short-circuit on infeasibility** (lines 151, 160). The series loop solves the
   post child and estimates the movement for every post assignment, even when the pre
   result is infeasible. The spec says infeasibility short-circuits without estimator
   calls. The frontier is unaffected; the estimator call count and the cache are not.

Observations without a run of their own (every run slot the project has is in use):
- The unit test's "pair of layers in sequence" expects the frontier
  {3.1 ms / 5 bytes, 4.1 ms / 3 bytes}. The (mv1, mv2) and (mv2, mv1) mappings both
  cost 3.6 ms / 4 bytes, which neither point dominates, so the spec's frontier has a
  third point. `TestParallelExpectation`'s run covers the test's other subcase.
- `batch_matmul.cc:87` ASSERTs that a, b and the output have the same element count.
  That holds only when n = m = p, so a non-square batch matmul aborts its forward task.
  The operators run shows this as `Aborted` results. `BatchMatmulKernelWithinBuffers`
  constrains only the kernels that run. This is listed as a hazard in `PROJECT.json`.
- `task_signature_impl.cc:118-120`: `LAYERNORM_FWD_TASK_ID` returns the forward impl
  with `get_layer_norm_init_signature()`. It is the only case of the switch whose
  impl and signature differ (`TaskSignatureAndImpl` records it). No layer-norm task
  file is in the repository, so no run binds a layer norm task.
- `concat.cc:112` declares the `PROFILING` argument of the forward signature as
  `bool`, while the binding and the impl use `ProfilingSettings`. The model keeps
  argument slots, not their types.
- `split.cc:140` declares only `PROFILING` in the split signature, although the
  binding also binds `ATTRS` and the kernel device type. `BindingDeclaredBySignature`
  fails on it too; the signature_binding trace shows the batch matmul case.
- `split.cc:78`: both split tasks fill `out_block_sizes[MAX_NUM_OUTPUTS]` for every
  split with no bound check (the comment at line 98 notes the missing assert). The
  model cannot reach an overflow: `calc_block_size` throws first for every tensor with
  more than one element.

## Not modelled (yet), and why

- **Cache reuse across contexts.** The context is a constant, so the cache key's
  omission of the context is listed as a hazard only.
- **Computation graph queries** (orderings, subgraph edges, isomorphism, `as_dot`,
  `get_layer_by_name`). They change no state, and the first four call graph algorithms of `utils/`, which is not in the
  repository. Other operators' layers go through dispatchers that are not in the
  repository either.
- **Task signatures of other operators, and backward signatures.** Only operators
  whose task file is in the repository (batch matmul, pool 2d, concat, split) have
  bindings to compare, and all four are modelled; `infer_bwd_signature` and `infer_bwd_binding` are not in the
  repository. The kernels the tasks call are not in it either: a kernel call is
  recorded by its arguments. `calculate_padding` in `pool_2d.cc` is never called.
- **Element-unary kernel lifecycle.** `element_unary_kernels.cc` creates, uses and
  destroys cuDNN descriptors; its caller protocol (the per-device-state handling of
  local execution) is not in the repository, so no ordering of its calls can be
  checked against a caller.
- **Kernels.** `element_unary_kernels`, reshape, allocation and `ff_handle` move device
  buffers through CUDA/HIP code. Only the `legion_dim.cc` index arithmetic and the
  argument accessor are modelled.
- **Models, metric attrs.** Glue, with no state worth checking.
- **A separate refinement property.** A top-level answer is the root's cache entry
  (saved by `CacheSave` or loaded by `CacheHit`), so the statement that every answer
  is an optimal frontier for the root repeats `CacheSound` at the root. The abstract
  module is kept as the reference definitions `CacheSound` is checked against.

## Plan

In priority order:
1. Search driver and result algebra (done).
2. Op-attrs shape inference, split task, computation graph `add_layer` (done).
3. Batch matmul, Pool2D and Concat tasks through the argument accessor (done).
4. Task dispatch and signatures (done).
5. The pinned run reaches both throws of the search, and a run checks the
   infeasibility short-circuit (done).
