--------------------------- MODULE SplitBlockSize ---------------------------
(***************************************************************************)
(* The block sizes of task-spec/ops/split.cc: calc_block_size and the     *)
(* computation forward_task_impl and backward_task_impl share, from the   *)
(* dims of the input and of the bound output.                              *)
(***************************************************************************)
EXTENDS ParallelTensorShape

\* The TensorDims of output i: the input's, with the split size on the axis.
\* The shape inference of split is not in the repository; this is the shape
\* the tasks are assumed to be given for their bound output tensor.
OutputDims(a, in, i) == [in EXCEPT ![a.axis + 1] = a.splits[i]]

\* The product of a sequence of sizes.  Written by recursion rather than with
\* FoldSeq, whose expansion makes TLC's coverage profiling of the tasks slow.
RECURSIVE SizeProduct(_)
SizeProduct(s) == IF s = <<>> THEN 1 ELSE Head(s) * SizeProduct(Tail(s))

\* The product of the dims at the given legion indices, read with dim_at_idx.
ProductAtLegion(dims, idxs) == SizeProduct([j \in 1..Len(idxs) |-> DimAtLegion(dims, idxs[j]).val])

(***************************************************************************)
(* calc_block_size(tensor_shape, axis): d runs over 0 .. num_elements-1;  *)
(* the legion dim d goes into block_size when d <= axis (an ff dim) and   *)
(* into num_blocks otherwise.  dim_at_idx throws for a d past the last    *)
(* dim, ending the task.                                                   *)
(***************************************************************************)
CalcBlockSize(dims, axis) ==
  LET idx == [i \in 1..SizeProduct(dims) |-> i - 1]
  IN  IF \E j \in DOMAIN idx : ~DimAtLegion(dims, idx[j]).ok THEN Aborted
      ELSE Ok([num_blocks |-> ProductAtLegion(dims, SelectSeq(idx, LAMBDA d : d > axis)),
               block_size |-> ProductAtLegion(dims, SelectSeq(idx, LAMBDA d : d <= axis))])

(***************************************************************************)
(* The body shared by forward_task_impl and backward_task_impl: the block *)
(* sizes of the input, then, for each of the splits, the block size of   *)
(* the one bound output (of dims out).  The result is what is passed to   *)
(* the kernel.                                                             *)
(***************************************************************************)
TaskBlockSizes(a, in, out) ==
  LET inb == CalcBlockSize(in, a.axis)
      outb == CalcBlockSize(out, a.axis)
  IN  IF ~inb.ok THEN inb
      ELSE IF Len(a.splits) > 0 /\ ~outb.ok THEN outb
      ELSE Ok([num_blocks |-> inb.val.num_blocks,
               in_block_size |-> inb.val.block_size,
               out_block_sizes |-> [i \in 1..Len(a.splits) |-> outb.val.block_size]])

=============================================================================
