------------------------------ MODULE OpTasks ------------------------------
(***************************************************************************)
(* The operator tasks of task-spec/ops (batch_matmul.cc, pool_2d.cc,      *)
(* concat.cc, split.cc) run through the LocalTaskArgumentAccessor of                 *)
(* local-execution/local_task_argument_accessor.cc.                        *)
(*                                                                         *)
(* An invocation binds slots to the operator's tensors (input_tensor(i),   *)
(* output_tensor(i), all inputs) and to arguments.  The executor backs     *)
(* each bound tensor slot with a buffer per tensor type: FORWARD for the  *)
(* tensor itself and, for a backward task, GRADIENT for its gradient, of  *)
(* the same shape.  A task reads its slots through the accessor: a slot   *)
(* or tensor type that is not backed throws (unordered_map::at), a single *)
(* read of a variadic slot or the reverse throws (require_single,        *)
(* require_variadic).  The task ends in the kernel call its impl makes,   *)
(* recorded as the accessors it passes, by parameter, and its integer     *)
(* arguments; a failed read or ASSERT ends it Aborted.                    *)
(*                                                                         *)
(* An operator's tensors have the shapes op-attrs gives them: the output  *)
(* of a batch matmul is what get_output_shape infers for its inputs.      *)
(* The executor runs an invocation's task id through                      *)
(* get_task_signature_and_impl_for_task_id and calls the impl it returns. *)
(* The tasks are pure functions of the accessor; a state is the caller    *)
(* idle or the result of its last task, as in ShapeInference.            *)
(***************************************************************************)
EXTENDS OpShapeInference, TaskSignatureImpl, SplitBlockSize

CONSTANTS
  BatchMatmulShapes,  \* pairs <<lhs, rhs>> of TensorShapes given to a batch matmul
  Pool2DAttrs,        \* Pool2DAttrs records
  Pool2DShapes,       \* pairs <<input, output>> of TensorShapes of a pool
  ConcatOps,          \* records [inputs: TensorShapes, output: TensorShape, axis]
  MaxNumInputs,       \* MAX_NUM_INPUTS, the bound the concat tasks assert
  SplitOps,           \* records [attrs: SplitAttrs, input, output: TensorShapes]
  MaxNumOutputs       \* MAX_NUM_OUTPUTS, the length of the split tasks' out_block_sizes

VARIABLE task

In(i) == <<"input", i>>
Out(i) == <<"output", i>>

\* OpTaskBinding::bind of one tensor, and of all input tensors (get_input_tensors).
Single(ref) == [variadic |-> FALSE, refs |-> <<ref>>]
AllInputs(n) == [variadic |-> TRUE, refs |-> [j \in 1..n |-> In(j - 1)]]

(***************************************************************************)
(* The tensor_slots_backing the executor builds from a binding: for every *)
(* bound slot and tensor type, the accessors of the bound tensors'        *)
(* buffers (GenericTensorAccessorW), a buffer being a tensor and a type. *)
(***************************************************************************)
Backing(binding, shapes, types) ==
  [k \in (DOMAIN binding) \X types |->
     [variadic |-> binding[k[1]].variadic,
      accs |-> [j \in DOMAIN binding[k[1]].refs |->
                  [shape |-> shapes[binding[k[1]].refs[j]],
                   buf |-> [ref |-> binding[k[1]].refs[j], type |-> k[2]],
                   writable |-> TRUE]]]]

Accessor(binding, shapes, types, args) ==
  [tensors |-> Backing(binding, shapes, types), args |-> args]

\* LocalTaskArgumentAccessor::get_tensor: RO gives a read-only accessor of the buffer.
GetTensor(acc, slot, priv, type) ==
  LET k == <<slot, type>>
  IN  IF k \notin DOMAIN acc.tensors \/ acc.tensors[k].variadic THEN Aborted
      ELSE Ok([acc.tensors[k].accs[1] EXCEPT !.writable = (priv # "RO")])

\* get_variadic_tensor: the same for every buffer of a variadic slot.
GetVariadicTensor(acc, slot, priv, type) ==
  LET k == <<slot, type>>
  IN  IF k \notin DOMAIN acc.tensors \/ ~acc.tensors[k].variadic THEN Aborted
      ELSE Ok([j \in DOMAIN acc.tensors[k].accs |->
                 [acc.tensors[k].accs[j] EXCEPT !.writable = (priv # "RO")]])

\* get_argument: arg_slots_backing.at(slot).
GetArgument(acc, slot) == IF slot \in DOMAIN acc.args THEN Ok(acc.args[slot]) ELSE Aborted

\* The kernel call a task ends in: accessors by parameter (a sequence each) and integers.
Kernel(name, params, ints) == [kernel |-> name, params |-> params, ints |-> ints]

AllOk(rs) == \A i \in DOMAIN rs : rs[i].ok

NumElements(dims) == ProductOf(dims)

-----------------------------------------------------------------------------
(* batch_matmul.cc                                                         *)

\* forward(BatchMatmulAttrs): the binding of lines 40-50.
BatchMatmulBinding ==
  ("A_INPUT" :> Single(In(0))) @@ ("B_INPUT" :> Single(In(1))) @@ ("OUTPUT" :> Single(Out(0)))
BatchMatmulArgs ==
  [s \in {"ATTRS", "HANDLE", "PROFILING", "ITERATION_CONFIG", "KERNEL_DEVICE_TYPE"} |-> s]

\* Mutant: the batch loop starts at legion dim 1.
BatchLegionDimsFromOne(a) == [j \in 1..(Len(a) - 1) |-> j]

\* The legion dims of the matmul's batch: 2 .. num_dims(a) - 1.
BatchLegionDims(a) == [j \in 1..(Len(a) - 2) |-> j + 1]

(***************************************************************************)
(* The dimension checks shared by both tasks (lines 80-99, 147-165): m,   *)
(* n and k are read at legion dims 0 and 1 and ASSERTed equal across the *)
(* three tensors, the three tensors ASSERTed to have as many elements,    *)
(* and batch is the product of the higher dims, each ASSERTed equal in   *)
(* all three.  Any failed dim_at_idx or ASSERT aborts.                    *)
(***************************************************************************)
BatchMatmulDims(a, b, out) ==
  LET m == DimAtLegion(b, 0)
      n == DimAtLegion(a, 1)
      k == DimAtLegion(a, 0)
      bl == BatchLegionDims(a)
      ok == /\ AllOk(<<m, n, k, DimAtLegion(out, 0), DimAtLegion(out, 1), DimAtLegion(b, 1)>>)
            /\ m.val = DimAtLegion(out, 0).val
            /\ n.val = DimAtLegion(out, 1).val
            /\ k.val = DimAtLegion(b, 1).val
            /\ NumElements(a) = NumElements(b)
            /\ NumElements(a) = NumElements(out)
            /\ \A j \in DOMAIN bl :
                 /\ DimAtLegion(b, bl[j]).ok /\ DimAtLegion(out, bl[j]).ok
                 /\ DimAtLegion(b, bl[j]).val = DimAtLegion(a, bl[j]).val
                 /\ DimAtLegion(out, bl[j]).val = DimAtLegion(a, bl[j]).val
  IN  IF ~ok THEN Aborted
      ELSE Ok([m |-> m.val, n |-> n.val, k |-> k.val,
               batch |-> ProductOf([j \in DOMAIN bl |-> DimAtLegion(a, bl[j]).val])])

\* forward_task_impl (lines 67-122).
BatchMatmulForwardTask(acc) ==
  LET a == GetTensor(acc, "A_INPUT", "RO", "FORWARD")
      b == GetTensor(acc, "B_INPUT", "RO", "FORWARD")
      o == GetTensor(acc, "OUTPUT", "WO", "FORWARD")
      args == <<GetArgument(acc, "ATTRS"), GetArgument(acc, "HANDLE"),
                GetArgument(acc, "PROFILING"), GetArgument(acc, "ITERATION_CONFIG"),
                GetArgument(acc, "KERNEL_DEVICE_TYPE")>>
  IN  IF ~AllOk(<<a, b, o>> \o args) THEN Aborted
      ELSE LET d == BatchMatmulDims(a.val.shape.dims, b.val.shape.dims, o.val.shape.dims)
           IN  IF ~d.ok THEN Aborted
               ELSE Ok(Kernel("batch_matmul_forward",
                              [output |-> <<o.val>>, a_input |-> <<a.val>>, b_input |-> <<b.val>>],
                              d.val))

(***************************************************************************)
(* backward_task_impl (lines 124-182): each tensor and its gradient, the  *)
(* two ASSERTed to have one shape, then the dimension checks.             *)
(***************************************************************************)
BatchMatmulBackwardTask(acc) ==
  LET o == GetTensor(acc, "OUTPUT", "RO", "FORWARD")
      og == GetTensor(acc, "OUTPUT", "RW", "GRADIENT")
      a == GetTensor(acc, "A_INPUT", "RO", "FORWARD")
      ag == GetTensor(acc, "A_INPUT", "RW", "GRADIENT")
      b == GetTensor(acc, "B_INPUT", "RO", "FORWARD")
      bg == GetTensor(acc, "B_INPUT", "RW", "GRADIENT")
      args == <<GetArgument(acc, "ITERATION_CONFIG"), GetArgument(acc, "PROFILING"),
                GetArgument(acc, "HANDLE"), GetArgument(acc, "KERNEL_DEVICE_TYPE")>>
  IN  IF ~AllOk(args \o <<o, og>>) \/ o.val.shape # og.val.shape THEN Aborted
      ELSE IF ~AllOk(<<a, ag>>) \/ a.val.shape # ag.val.shape THEN Aborted
      ELSE IF ~AllOk(<<b, bg>>) \/ b.val.shape # bg.val.shape THEN Aborted
      ELSE LET d == BatchMatmulDims(a.val.shape.dims, b.val.shape.dims, o.val.shape.dims)
           IN  IF ~d.ok THEN Aborted
               ELSE Ok(Kernel("batch_matmul_backward",
                              [output |-> <<o.val>>, output_grad |-> <<og.val>>,
                               a_input |-> <<a.val>>, a_input_grad |-> <<ag.val>>,
                               b_input |-> <<b.val>>, b_input_grad |-> <<bg.val>>],
                              d.val))

-----------------------------------------------------------------------------
(* pool_2d.cc                                                              *)

\* init(Pool2DAttrs) and forward(Pool2DAttrs): the bindings of lines 23-28, 96-103.
Pool2DBinding == ("INPUT" :> Single(In(0))) @@ ("OUTPUT" :> Single(Out(0)))
Pool2DInitArgs(a) == ("ATTRS" :> a) @@ ("HANDLE" :> "handle") @@ ("KERNEL_DEVICE_TYPE" :> "device")
Pool2DArgs(state) ==
  ("PROFILING" :> "profiling") @@ ("KERNEL_DEVICE_TYPE" :> "device") @@ ("PER_DEVICE_STATE" :> state)

\* dim_at_idx(TensorDims, ff_dim_t): throws past the last dim.
DimAtFF(dims, i) == IF i < Len(dims) THEN Ok(dims[i + 1]) ELSE Aborted

\* The four dims init_task_impl reads, in its order: ff dims 0, 1, 2, 3 as w, h, c, n.
Pool2DDims(dims) == [j \in 1..4 |-> DimAtFF(dims, j - 1)]

(***************************************************************************)
(* init_task_impl (lines 50-93): the per-device state init_kernel builds   *)
(* from the attrs and the dims it is passed.                               *)
(***************************************************************************)
Pool2DInitTask(acc) ==
  LET a == GetArgument(acc, "ATTRS")
      args == <<a, GetArgument(acc, "HANDLE"), GetArgument(acc, "KERNEL_DEVICE_TYPE")>>
      i == GetTensor(acc, "INPUT", "RO", "FORWARD")
      o == GetTensor(acc, "OUTPUT", "WO", "FORWARD")
  IN  IF ~AllOk(args \o <<i, o>>) THEN Aborted
      ELSE LET id == Pool2DDims(i.val.shape.dims)
               od == Pool2DDims(o.val.shape.dims)
           IN  IF ~AllOk(id \o od) THEN Aborted
               ELSE Ok([attrs |-> a.val,
                        input |-> [j \in 1..4 |-> id[j].val],
                        output |-> [j \in 1..4 |-> od[j].val]])

\* forward_task_impl (lines 120-137).
Pool2DForwardTask(acc) ==
  LET args == <<GetArgument(acc, "PROFILING"), GetArgument(acc, "KERNEL_DEVICE_TYPE")>>
      st == GetArgument(acc, "PER_DEVICE_STATE")
      i == GetTensor(acc, "INPUT", "RO", "FORWARD")
      o == GetTensor(acc, "OUTPUT", "WO", "FORWARD")
  IN  IF ~AllOk(args \o <<st, i, o>>) THEN Aborted
      ELSE Ok(Kernel("pool_2d_forward", [input |-> <<i.val>>, output |-> <<o.val>>],
                     [state |-> st.val]))

(***************************************************************************)
(* backward_task_impl (lines 139-161).  output_grad and input_grad are     *)
(* read with get_tensor, as the tensors themselves, not with              *)
(* get_tensor_grad.                                                        *)
(***************************************************************************)
Pool2DBackwardTask(acc) ==
  LET args == <<GetArgument(acc, "PROFILING"), GetArgument(acc, "KERNEL_DEVICE_TYPE")>>
      st == GetArgument(acc, "PER_DEVICE_STATE")
      o == GetTensor(acc, "OUTPUT", "RO", "FORWARD")
      og == GetTensor(acc, "OUTPUT", "RO", "FORWARD")
      i == GetTensor(acc, "INPUT", "RO", "FORWARD")
      ig == GetTensor(acc, "INPUT", "RW", "FORWARD")
  IN  IF ~AllOk(args \o <<st, o, og, i, ig>>) THEN Aborted
      ELSE Ok(Kernel("pool_2d_backward",
                     [output |-> <<o.val>>, output_grad |-> <<og.val>>,
                      input |-> <<i.val>>, input_grad |-> <<ig.val>>],
                     [state |-> st.val]))

-----------------------------------------------------------------------------
(* concat.cc                                                               *)

\* forward(ConcatAttrs): the binding of lines 38-43.
ConcatBinding(n) == ("INPUTS" :> AllInputs(n)) @@ ("OUTPUT" :> Single(Out(0)))
ConcatArgs(a) == ("PROFILING" :> "profiling") @@ ("ATTRS" :> a) @@ ("KERNEL_DEVICE_TYPE" :> "device")

\* Mutant: the inputs read with write access.
ConcatForwardTaskInputsWritable(acc) ==
  LET args == <<GetArgument(acc, "PROFILING"), GetArgument(acc, "KERNEL_DEVICE_TYPE")>>
      a == GetArgument(acc, "ATTRS")
      o == GetTensor(acc, "OUTPUT", "WO", "FORWARD")
      ins == GetVariadicTensor(acc, "INPUTS", "RW", "FORWARD")
  IN  IF ~AllOk(args \o <<a, o, ins>>) \/ Len(ins.val) > MaxNumInputs THEN Aborted
      ELSE Ok(Kernel("concat_forward", [output |-> <<o.val>>, inputs |-> ins.val],
                     [axis |-> a.val.axis]))

\* forward_task_impl (lines 60-78); the assert on the number of inputs aborts.
ConcatForwardTask(acc) ==
  LET args == <<GetArgument(acc, "PROFILING"), GetArgument(acc, "KERNEL_DEVICE_TYPE")>>
      a == GetArgument(acc, "ATTRS")
      o == GetTensor(acc, "OUTPUT", "WO", "FORWARD")
      ins == GetVariadicTensor(acc, "INPUTS", "RO", "FORWARD")
  IN  IF ~AllOk(args \o <<a, o, ins>>) \/ Len(ins.val) > MaxNumInputs THEN Aborted
      ELSE Ok(Kernel("concat_forward", [output |-> <<o.val>>, inputs |-> ins.val],
                     [axis |-> a.val.axis]))

\* backward_task_impl (lines 80-99).
ConcatBackwardTask(acc) ==
  LET args == <<GetArgument(acc, "PROFILING"), GetArgument(acc, "KERNEL_DEVICE_TYPE")>>
      a == GetArgument(acc, "ATTRS")
      igs == GetVariadicTensor(acc, "INPUTS", "RW", "GRADIENT")
      og == GetTensor(acc, "OUTPUT", "RO", "GRADIENT")
  IN  IF ~AllOk(args \o <<a, igs, og>>) \/ Len(igs.val) > MaxNumInputs THEN Aborted
      ELSE Ok(Kernel("concat_backward", [output_grad |-> <<og.val>>, input_grads |-> igs.val],
                     [axis |-> a.val.axis]))

-----------------------------------------------------------------------------
(* split.cc                                                                *)

\* forward(SplitAttrs): the binding of lines 28-41.
SplitBinding == ("INPUT" :> Single(In(0))) @@ ("OUTPUT" :> Single(Out(0)))
SplitArgs(a) == ("PROFILING" :> "profiling") @@ ("ATTRS" :> a) @@ ("KERNEL_DEVICE_TYPE" :> "device")

(***************************************************************************)
(* The body of both split tasks once the accessors are read: the block    *)
(* sizes of the input and of the bound output (a throw of calc_block_size  *)
(* aborts the task), then the kernel call on the given parameters.         *)
(***************************************************************************)
SplitKernel(name, params, a, in, out) ==
  LET b == TaskBlockSizes(a, in.shape.dims, out.shape.dims)
  IN  IF ~b.ok THEN Aborted
      ELSE Ok(Kernel(name, params, b.val @@ [num_outputs |-> Len(a.splits)]))

\* forward_task_impl (lines 70-96).
SplitForwardTask(acc) ==
  LET args == <<GetArgument(acc, "PROFILING"), GetArgument(acc, "KERNEL_DEVICE_TYPE")>>
      i == GetTensor(acc, "INPUT", "RO", "FORWARD")
      o == GetTensor(acc, "OUTPUT", "WO", "FORWARD")
      a == GetArgument(acc, "ATTRS")
  IN  IF ~AllOk(args \o <<i, o, a>>) THEN Aborted
      ELSE SplitKernel("split_forward", [outputs |-> <<o.val>>, input |-> <<i.val>>],
                       a.val, i.val, o.val)

\* backward_task_impl (lines 99-128), on the gradients of input and output.
SplitBackwardTask(acc) ==
  LET args == <<GetArgument(acc, "PROFILING"), GetArgument(acc, "KERNEL_DEVICE_TYPE")>>
      ig == GetTensor(acc, "INPUT", "RW", "GRADIENT")
      og == GetTensor(acc, "OUTPUT", "RO", "GRADIENT")
      a == GetArgument(acc, "ATTRS")
  IN  IF ~AllOk(args \o <<ig, og, a>>) THEN Aborted
      ELSE SplitKernel("split_backward", [input_grad |-> <<ig.val>>, output_grads |-> <<og.val>>],
                       a.val, ig.val, og.val)

-----------------------------------------------------------------------------
(* The signatures and impl getters of the three operator files.            *)

\* An OpTaskSignature: the tensor slots (slot -> variadic) and the argument slots.
Sig(tensors, args) == [tensors |-> tensors, args |-> args]

\* The init and forward signatures (arg slots checked or unchecked alike).
BatchMatmulFwdSignature ==
  Sig(("A_INPUT" :> FALSE) @@ ("B_INPUT" :> FALSE) @@ ("OUTPUT" :> FALSE),
      {"ATTRS", "PROFILING", "KERNEL_DEVICE_TYPE", "HANDLE"})
Pool2DInitSignature ==
  Sig(("INPUT" :> FALSE) @@ ("OUTPUT" :> FALSE), {"ATTRS", "KERNEL_DEVICE_TYPE", "HANDLE"})
Pool2DFwdSignature ==
  Sig(("INPUT" :> FALSE) @@ ("OUTPUT" :> FALSE), {"PROFILING", "KERNEL_DEVICE_TYPE", "PER_DEVICE_STATE"})
ConcatFwdSignature ==
  Sig(("INPUTS" :> TRUE) @@ ("OUTPUT" :> FALSE), {"ATTRS", "PROFILING", "KERNEL_DEVICE_TYPE"})
SplitFwdSignature == Sig(("INPUT" :> FALSE) @@ ("OUTPUT" :> FALSE), {"PROFILING"})

\* The signature getter a dispatcher case names, by operator file and kind.
OpSignature ==
  (<<"batch_matmul", "FWD">> :> BatchMatmulFwdSignature)
  @@ (<<"pool_2d", "INIT">> :> Pool2DInitSignature) @@ (<<"pool_2d", "FWD">> :> Pool2DFwdSignature)
  @@ (<<"concat", "FWD">> :> ConcatFwdSignature) @@ (<<"split", "FWD">> :> SplitFwdSignature)

\* The task impl functions the get_*_task_impl getters return, called on an accessor.
RunImpl(impl, acc) ==
  CASE impl = <<"batch_matmul", "FWD">> -> BatchMatmulForwardTask(acc)
    [] impl = <<"batch_matmul", "BWD">> -> BatchMatmulBackwardTask(acc)
    [] impl = <<"pool_2d", "INIT">> -> Pool2DInitTask(acc)
    [] impl = <<"pool_2d", "FWD">> -> Pool2DForwardTask(acc)
    [] impl = <<"pool_2d", "BWD">> -> Pool2DBackwardTask(acc)
    [] impl = <<"concat", "FWD">> -> ConcatForwardTask(acc)
    [] impl = <<"concat", "BWD">> -> ConcatBackwardTask(acc)
    [] impl = <<"split", "FWD">> -> SplitForwardTask(acc)
    [] impl = <<"split", "BWD">> -> SplitBackwardTask(acc)

-----------------------------------------------------------------------------
(* The tasks run by the executor on the operators' tensors.                *)

\* The tensor types backed for a forward (and init) task and for a backward task.
ForwardTypes == {"FORWARD"}
BackwardTypes == {"FORWARD", "GRADIENT"}

Task(op, kind, id, slots, shapes, result) ==
  [op |-> op, kind |-> kind, id |-> id, slots |-> slots, shapes |-> shapes, result |-> result]

Idle == Task("none", "none", <<"none", "none">>, Sig(<<>>, {}), <<>>, Unexpected)

(***************************************************************************)
(* The executor running an OpTaskInvocation with task id id and the given *)
(* binding and arguments on the operator's tensors: the slots it binds,   *)
(* and the result of the impl the dispatcher returns for id.              *)
(***************************************************************************)
Invoke(op, kind, id, binding, args, shapes, types) ==
  Task(op, kind, id, Sig([k \in DOMAIN binding |-> binding[k].variadic], DOMAIN args), shapes,
       RunImpl(TaskSignatureAndImpl[id].impl, Accessor(binding, shapes, types, args)))

Init == task = Idle

\* A batch matmul's tensors: its inputs and the output op-attrs infers for them.
BatchMatmulTensors(s) ==
  (In(0) :> s[1]) @@ (In(1) :> s[2]) @@ (Out(0) :> BatchMatmulOutputShape(s[1], s[2]).val)

BatchMatmulForward ==
  /\ task = Idle
  /\ "batch_matmul" \in ForwardInvocationOps
  /\ \E s \in BatchMatmulShapes :
       /\ BatchMatmulOutputShape(s[1], s[2]).ok
       /\ task' = Invoke("batch_matmul", "forward", <<"BATCHMATMUL", "FWD">>, BatchMatmulBinding,
                         BatchMatmulArgs, BatchMatmulTensors(s), ForwardTypes)

BatchMatmulBackward ==
  /\ task = Idle
  /\ "batch_matmul" \in BackwardInvocationOps
  /\ \E s \in BatchMatmulShapes :
       /\ BatchMatmulOutputShape(s[1], s[2]).ok
       /\ task' = Invoke("batch_matmul", "backward", <<"BATCHMATMUL", "BWD">>, BatchMatmulBinding,
                         BatchMatmulArgs, BatchMatmulTensors(s), BackwardTypes)

Pool2DTensors(s) == (In(0) :> s[1]) @@ (Out(0) :> s[2])

\* The per-device state the init task of a pool returns.
Pool2DState(a, s) ==
  Invoke("pool_2d", "init", <<"POOL2D", "INIT">>, Pool2DBinding, Pool2DInitArgs(a),
         Pool2DTensors(s), ForwardTypes)

Pool2DInit ==
  /\ task = Idle
  /\ "pool_2d" \in InitInvocationOps
  /\ \E a \in Pool2DAttrs, s \in Pool2DShapes :
       task' = Pool2DState(a, s)

\* The forward and backward tasks get, as PER_DEVICE_STATE, what the init task returned.
Pool2DForward ==
  /\ task = Idle
  /\ "pool_2d" \in ForwardInvocationOps
  /\ \E a \in Pool2DAttrs, s \in Pool2DShapes :
       /\ Pool2DState(a, s).result.ok
       /\ task' = Invoke("pool_2d", "forward", <<"POOL2D", "FWD">>, Pool2DBinding,
                         Pool2DArgs(Pool2DState(a, s).result.val), Pool2DTensors(s), ForwardTypes)

Pool2DBackward ==
  /\ task = Idle
  /\ "pool_2d" \in BackwardInvocationOps
  /\ \E a \in Pool2DAttrs, s \in Pool2DShapes :
       /\ Pool2DState(a, s).result.ok
       /\ task' = Invoke("pool_2d", "backward", <<"POOL2D", "BWD">>, Pool2DBinding,
                         Pool2DArgs(Pool2DState(a, s).result.val), Pool2DTensors(s), BackwardTypes)

ConcatTensors(c) == [r \in {In(j - 1) : j \in DOMAIN c.inputs} \cup {Out(0)} |->
                       IF r = Out(0) THEN c.output ELSE c.inputs[r[2] + 1]]

ConcatForward ==
  /\ task = Idle
  /\ "concat" \in ForwardInvocationOps
  /\ \E c \in ConcatOps :
       task' = Invoke("concat", "forward", <<"CONCAT", "FWD">>, ConcatBinding(Len(c.inputs)),
                      ConcatArgs(c), ConcatTensors(c), ForwardTypes)

ConcatBackward ==
  /\ task = Idle
  /\ "concat" \in BackwardInvocationOps
  /\ \E c \in ConcatOps :
       task' = Invoke("concat", "backward", <<"CONCAT", "BWD">>, ConcatBinding(Len(c.inputs)),
                      ConcatArgs(c), ConcatTensors(c), BackwardTypes)

SplitTensors(sp) == (In(0) :> sp.input) @@ (Out(0) :> sp.output)

SplitForward ==
  /\ task = Idle
  /\ "split" \in ForwardInvocationOps
  /\ \E sp \in SplitOps :
       task' = Invoke("split", "forward", <<"SPLIT", "FWD">>, SplitBinding,
                      SplitArgs(sp.attrs), SplitTensors(sp), ForwardTypes)

SplitBackward ==
  /\ task = Idle
  /\ "split" \in BackwardInvocationOps
  /\ \E sp \in SplitOps :
       task' = Invoke("split", "backward", <<"SPLIT", "BWD">>, SplitBinding,
                      SplitArgs(sp.attrs), SplitTensors(sp), BackwardTypes)

Return ==
  /\ task # Idle
  /\ task' = Idle

Next ==
  \/ BatchMatmulForward \/ BatchMatmulBackward
  \/ Pool2DInit \/ Pool2DForward \/ Pool2DBackward
  \/ ConcatForward \/ ConcatBackward
  \/ SplitForward \/ SplitBackward
  \/ Return

Spec == Init /\ [][Next]_task

-----------------------------------------------------------------------------
(* Properties *)

(***************************************************************************)
(* Every task the executor runs for an operator is one the operator        *)
(* registers: the task id of the init, forward or backward invocation      *)
(* built in batch_matmul.cc, pool_2d.cc or concat.cc is among the ids      *)
(* get_task_ids returns for that operator, so a runtime that registers    *)
(* exactly those tasks can run every invocation it is given.              *)
(***************************************************************************)
InvokedTaskRegistered == task # Idle => task.id \in GetTaskIds(task.op)

(***************************************************************************)
(* The signature the dispatcher returns for an invocation's task id        *)
(* declares exactly the slots the invocation binds: the same tensor slots, *)
(* variadic where bound variadic, and the same argument slots.  Checked   *)
(* for init and forward invocations, whose bindings and signatures are    *)
(* both written out in the operator files.                                 *)
(***************************************************************************)
BindingDeclaredBySignature ==
  task.kind \in {"init", "forward"} =>
    task.slots = OpSignature[TaskSignatureAndImpl[task.id].signature]

\* The accessors a finished task passes to its kernel, with their parameter names.
KernelArgs ==
  IF task.result.ok /\ task.kind \in {"forward", "backward"}
  THEN LET ps == task.result.val.params
       IN  UNION {{[param |-> p, acc |-> ps[p][j]] : j \in DOMAIN ps[p]} : p \in DOMAIN ps}
  ELSE {}

(***************************************************************************)
(* A forward kernel writes the operator's outputs and nothing else: every  *)
(* writable accessor a forward task of batch_matmul.cc, pool_2d.cc or     *)
(* concat.cc passes is the forward buffer of an output tensor, so a      *)
(* forward pass never overwrites an input or a gradient.                  *)
(***************************************************************************)
ForwardWritesOnlyOutputs ==
  task.kind = "forward" =>
    \A x \in KernelArgs :
      x.acc.writable => x.acc.buf.ref[1] = "output" /\ x.acc.buf.type = "FORWARD"

\* The kernel parameters that are gradients.
GradientParams ==
  {"output_grad", "output_grads", "a_input_grad", "b_input_grad", "input_grad", "input_grads"}

(***************************************************************************)
(* A backward kernel reads its gradient parameters from gradient buffers  *)
(* and writes nothing but gradients: the forward tensors an operator's     *)
(* backward task reads are left as the forward pass made them, and the     *)
(* output gradient it propagates is the gradient, not the output.          *)
(***************************************************************************)
BackwardWritesOnlyGradients ==
  task.kind = "backward" =>
    \A x \in KernelArgs :
      /\ x.param \in GradientParams => x.acc.buf.type = "GRADIENT"
      /\ x.acc.writable => x.acc.buf.type = "GRADIENT"

(***************************************************************************)
(* The batch matmul kernel addresses exactly its buffers: with the m, n,  *)
(* k and batch the tasks compute from legion dims, a is batch x n x k     *)
(* elements, b batch x k x m and the output batch x n x m, and so is each *)
(* gradient.  A kernel that reads past a buffer, or not all of it, would   *)
(* break this.                                                             *)
(***************************************************************************)
BatchMatmulKernelWithinBuffers ==
  task.op = "batch_matmul" /\ task.result.ok =>
    LET d == task.result.val.ints
        extent == [output |-> d.batch * d.n * d.m, output_grad |-> d.batch * d.n * d.m,
                   a_input |-> d.batch * d.n * d.k, a_input_grad |-> d.batch * d.n * d.k,
                   b_input |-> d.batch * d.k * d.m, b_input_grad |-> d.batch * d.k * d.m]
    IN  \A x \in KernelArgs : NumElements(x.acc.shape.dims) = extent[x.param]

=============================================================================
