----------------------------- MODULE SplitTask -----------------------------
(***************************************************************************)
(* The forward and backward task implementations of Split                  *)
(* (task-spec/ops/split.cc).  Both compute, with calc_block_size, the      *)
(* block sizes the split kernel copies by: num_blocks and in_block_size    *)
(* of the input, and one out_block_size per split.  The forward task reads *)
(* the shapes of the bound INPUT and OUTPUT tensors, the backward task     *)
(* those of their gradients, which have the same shapes.  The binding      *)
(* (forward) binds one output tensor, output_tensor(0).                    *)
(***************************************************************************)
EXTENDS SplitBlockSize

CONSTANTS
  SplitAttrs,      \* records [axis: ff dim, splits: sizes along axis]
  InputDims,       \* the FF-ordered dims of the input tensor
  MaxNumOutputs    \* MAX_NUM_OUTPUTS, the length of out_block_sizes

VARIABLE task

Idle == [kind |-> "none", attrs |-> [axis |-> 0, splits |-> <<>>], in |-> <<>>,
         result |-> Unexpected]

Init == task = Idle

\* forward_task_impl on an input and its split attrs.
ForwardTask ==
  /\ task = Idle
  /\ \E a \in SplitAttrs, in \in InputDims :
       task' = [kind |-> "fwd", attrs |-> a, in |-> in, result |-> TaskBlockSizes(a, in, OutputDims(a, in, 1))]

\* backward_task_impl: the same computation on the gradients' shapes.
BackwardTask ==
  /\ task = Idle
  /\ \E a \in SplitAttrs, in \in InputDims :
       task' = [kind |-> "bwd", attrs |-> a, in |-> in, result |-> TaskBlockSizes(a, in, OutputDims(a, in, 1))]

Return ==
  /\ task # Idle
  /\ task' = Idle

Next == ForwardTask \/ BackwardTask \/ Return

Spec == Init /\ [][Next]_task

-----------------------------------------------------------------------------
(* Properties *)

\* The product of the FF dims at 0-based positions lo .. hi.
FFProduct(dims, lo, hi) == ProductOf([j \in 1..(hi - lo + 1) |-> dims[lo + j]])

\* A split of the input along axis into at most MAX_NUM_OUTPUTS parts.
ValidSplit(a, in) ==
  /\ a.axis < Len(in)
  /\ Len(a.splits) \in 1..MaxNumOutputs
  /\ FoldSeq(LAMBDA x, y : x + y, 0, a.splits) = in[a.axis + 1]

(***************************************************************************)
(* The split kernel copies, for each of num_blocks outer blocks, a block  *)
(* of in_block_size elements of the input into blocks of out_block_sizes[i]*)
(* elements of output i.  Splitting along ff dim axis, the blocks are the *)
(* axis dim and everything inside it: a task on a valid split (the sizes  *)
(* add up to the axis dim, at most MAX_NUM_OUTPUTS of them) completes and *)
(* passes num_blocks = the product of the dims outside the axis,          *)
(* in_block_size = the product from the axis inwards, and for output i    *)
(* its own split size times the dims inside the axis.                     *)
(***************************************************************************)
BlockSizesMatchReference ==
  LET a == task.attrs
      n == Len(task.in)
  IN  task.kind # "none" /\ ValidSplit(a, task.in) =>
        /\ task.result.ok
        /\ task.result.val.num_blocks = FFProduct(task.in, 0, a.axis - 1)
        /\ task.result.val.in_block_size = FFProduct(task.in, a.axis, n - 1)
        /\ \A i \in 1..Len(a.splits) :
             task.result.val.out_block_sizes[i] =
               a.splits[i] * FFProduct(task.in, a.axis + 1, n - 1)

=============================================================================
