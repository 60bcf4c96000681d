------------------------ MODULE ParallelTensorShape ------------------------
(***************************************************************************)
(* Tensor shapes of op-attrs.                                              *)
(*                                                                         *)
(* A TensorShape is its FF-ordered dims (outermost first) and a DataType.  *)
(* A ParallelTensorShape gives every dim a parallel degree (a              *)
(* ShardParallelDim) and adds the two replica degrees, sum (partial sums   *)
(* still to be added) and discard-copy (identical copies).  The helpers   *)
(* are declared in op-attrs/parallel_tensor_shape.h.  The dimension-index *)
(* conversions are those of kernels/legion_dim.cc.                         *)
(*                                                                         *)
(* Shape inference returns a tl::expected or throws.  The models return    *)
(* Ok(v), Unexpected (a tl::unexpected, whatever its message), or Aborted *)
(* (an assert, or a positive_int / nonnegative_int constructed from an     *)
(* out-of-range value).  A result is never compared with another result   *)
(* without looking at its ok field first.                                  *)
(***************************************************************************)
EXTENDS Integers, Sequences, SequencesExt

DataTypes == {"BOOL", "INT32", "INT64", "HALF", "FLOAT", "DOUBLE"}

Ok(v) == [ok |-> TRUE, val |-> v]
Unexpected == [ok |-> FALSE, val |-> "unexpected"]
Aborted == [ok |-> FALSE, val |-> "aborted"]

\* product() of positive_ints.
ProductOf(s) == FoldSeq(LAMBDA x, y : x * y, 1, s)

\* relative_ff_dim_t: a non-negative index counts from the front, a
\* negative one from the back; the 1-based position in the sequence.
RelPos(n, i) == IF i >= 0 THEN i + 1 ELSE n + i + 1
DimAt(dims, i) == dims[RelPos(Len(dims), i)]

ShardDim(size, degree) == [size |-> size, degree |-> degree]

\* lift_to_parallel_with_degrees(shape, sum, discard, shard_degrees)
LiftWithDegrees(ts, sum, discard, degrees) ==
  [shard   |-> [i \in 1..Len(ts.dims) |-> ShardDim(ts.dims[i], degrees[i])],
   sum     |-> sum,
   discard |-> discard,
   dt      |-> ts.dt]

\* lift_to_parallel_with_degrees(shape, ParallelTensorDimDegrees)
LiftWithDegreeRecord(ts, d) == LiftWithDegrees(ts, d.sum, d.discard, d.shard)

\* get_reduced_shape: the shape of the whole tensor.
ReducedShape(ps) == [dims |-> [i \in 1..Len(ps.shard) |-> ps.shard[i].size], dt |-> ps.dt]

\* ff_ordered_shard_degrees
ShardDegrees(ps) == [i \in 1..Len(ps.shard) |-> ps.shard[i].degree]

\* get_parallel_degrees
ParallelDegrees(ps) == [sum |-> ps.sum, discard |-> ps.discard, shard |-> ShardDegrees(ps)]

\* get_total_parallel_degree: the number of pieces the tensor is cut into.
TotalDegree(ps) == ProductOf(ShardDegrees(ps)) * ps.sum * ps.discard

(***************************************************************************)
(* legion_dim.cc.  A legion dim counts from the innermost dim.  The        *)
(* conversions compute n - d - 1 into a nonnegative_int, which throws when *)
(* the index is not below n.                                               *)
(***************************************************************************)
LegionDimFromFFDim(ff, n) == n - ff - 1
FFDimFromLegionDim(l, n) == n - l - 1

\* dim_at_idx(TensorDims, legion_dim_t): Aborted when the index is out of range.
DimAtLegion(dims, l) ==
  LET ff == FFDimFromLegionDim(l, Len(dims))
  IN  IF ff < 0 THEN Aborted ELSE Ok(dims[ff + 1])

=============================================================================
