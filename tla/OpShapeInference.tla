-------------------------- MODULE OpShapeInference --------------------------
(***************************************************************************)
(* Shape inference of the operators under op-attrs/src/op-attrs/ops: for   *)
(* each operator the sequential function (TensorShape) and the parallel    *)
(* one (ParallelTensorShape), with the incoming-tensor roles, weight       *)
(* shapes and initializers where the operator has them.  Every guard and   *)
(* early return of the code is kept; error messages are abstracted to     *)
(* Unexpected, asserts and failing positive_int constructions to Aborted. *)
(***************************************************************************)
EXTENDS ParallelTensorShape, FiniteSets

-----------------------------------------------------------------------------
(* Conv2D (ops/conv_2d.cc).  Inputs are 4-d: N, C, H, W.  Attrs:          *)
(* out_channels, kernel/stride/padding in h and w, use_bias; groups is   *)
(* always 1 (the code asserts it).                                        *)

Conv2DIncomingRoles(a) ==
  <<"INPUT", "WEIGHT">> \o (IF a.use_bias THEN <<"WEIGHT">> ELSE <<>>)

Conv2DKernelShape(a, in) ==
  [dims |-> <<a.out_channels, in.dims[2], a.kernel_h, a.kernel_w>>, dt |-> in.dt]

Conv2DBiasShape(a, in) == [dims |-> <<a.out_channels>>, dt |-> in.dt]

\* C++ int division truncates toward zero.
CDiv(x, y) == IF x >= 0 THEN x \div y ELSE -((-x) \div y)

\* calculate_output_size, before its positive_int construction.
CalculateOutputSize(in, pad, k, s) == CDiv(in + 2 * pad - k, s) + 1

\* get_output_shape(Conv2DAttrs, TensorShape): positive_int{} throws below 1.
Conv2DOutputShape(a, in) ==
  LET h == CalculateOutputSize(in.dims[3], a.padding_h, a.kernel_h, a.stride_h)
      w == CalculateOutputSize(in.dims[4], a.padding_w, a.kernel_w, a.stride_w)
  IN  IF h < 1 \/ w < 1 THEN Aborted
      ELSE Ok([dims |-> <<in.dims[1], a.out_channels, h, w>>, dt |-> in.dt])

Conv2DWeightShapes(a, in) ==
  <<Conv2DKernelShape(a, in)>> \o
  (IF a.use_bias THEN <<Conv2DBiasShape(a, in)>> ELSE <<>>)

\* parse_parallel_input_shape: the four shard dims and the replica degrees.
Sample(ps) == ps.shard[1]
Channel(ps) == ps.shard[2]
Height(ps) == ps.shard[3]
Width(ps) == ps.shard[4]

\* Mutant: the kernel's discard-copy degree forgets the input's sum degree.
Conv2DParKernelShapeDroppingSum(a, ps) ==
  IF Height(ps).degree # 1 \/ Width(ps).degree # 1 THEN Aborted
  ELSE Ok(LiftWithDegrees(Conv2DKernelShape(a, ReducedShape(ps)), 1, Sample(ps).degree,
                          <<ps.discard, Channel(ps).degree, 1, 1>>))

\* get_kernel_shape(Conv2DAttrs, ParallelTensorShape)
Conv2DParKernelShape(a, ps) ==
  IF Height(ps).degree # 1 \/ Width(ps).degree # 1 THEN Aborted
  ELSE Ok(LiftWithDegrees(Conv2DKernelShape(a, ReducedShape(ps)),
                          1,
                          Sample(ps).degree * ps.sum,
                          <<ps.discard, Channel(ps).degree, 1, 1>>))

\* get_bias_shape(Conv2DAttrs, ParallelTensorShape): no assert on H and W.
Conv2DParBiasShape(a, ps) ==
  Ok(LiftWithDegrees(Conv2DBiasShape(a, ReducedShape(ps)),
                     ps.sum * Channel(ps).degree,
                     Height(ps).degree * Width(ps).degree * Sample(ps).degree,
                     <<ps.discard>>))

\* get_output_shape(Conv2DAttrs, ParallelTensorShape)
Conv2DParOutputShape(a, ps) ==
  LET unpar == Conv2DOutputShape(a, ReducedShape(ps))
  IN  IF ~unpar.ok THEN unpar
      ELSE IF Height(ps).degree # 1 \/ Width(ps).degree # 1 THEN Aborted
      ELSE Ok(LiftWithDegrees(unpar.val,
                              ps.sum * Channel(ps).degree,
                              1,
                              <<Sample(ps).degree, ps.discard, 1, 1>>))

\* get_weight_shapes(Conv2DAttrs, ParallelTensorShape)
Conv2DParWeightShapes(a, ps) ==
  LET k == Conv2DParKernelShape(a, ps)
  IN  IF ~k.ok THEN k
      ELSE Ok(<<k.val>> \o
              (IF a.use_bias THEN <<Conv2DParBiasShape(a, ps).val>> ELSE <<>>))

(***************************************************************************)
(* get_initializers(Conv2DAttrs, ...): a bias initializer without use_bias *)
(* throws; otherwise the given or default kernel initializer, and the     *)
(* bias initializer when use_bias.  An initializer is "given" or "default".*)
(***************************************************************************)
\* Mutant: a bias initializer is returned whether or not use_bias is set.
Conv2DInitializersAlwaysBias(a, kernelInit, biasInit) ==
  IF ~a.use_bias /\ biasInit # "none" THEN Aborted
  ELSE Ok(<<IF kernelInit = "none" THEN "default" ELSE kernelInit,
            IF biasInit = "none" THEN "default" ELSE biasInit>>)

Conv2DInitializers(a, kernelInit, biasInit) ==
  IF ~a.use_bias /\ biasInit # "none" THEN Aborted
  ELSE LET k == IF kernelInit = "none" THEN "default" ELSE kernelInit
           b == IF biasInit = "none" THEN "default" ELSE biasInit
       IN  Ok(IF a.use_bias THEN <<k, b>> ELSE <<k>>)

-----------------------------------------------------------------------------
(* BatchMatmul (ops/batch_matmul.cc): (b x n x m) times (b x m x p).       *)

\* get_output_shape(BatchMatmulAttrs, TensorShape, TensorShape)
BatchMatmulOutputShape(l, r) ==
  IF Len(l.dims) # 3 \/ Len(r.dims) # 3 \/ l.dt # r.dt THEN Unexpected
  ELSE IF l.dims[1] # r.dims[1] \/ l.dims[3] # r.dims[2] THEN Unexpected
  ELSE Ok([dims |-> <<l.dims[1], l.dims[2], r.dims[3]>>, dt |-> l.dt])

(***************************************************************************)
(* get_output_shape(BatchMatmulAttrs, ParallelTensorShape, ...).  The      *)
(* assert on the total degrees comes before the checks that compare the   *)
(* shard dims (size and degree) and the replica degrees.  The output sum  *)
(* degree is an integer division.                                          *)
(***************************************************************************)
BatchMatmulParOutputShape(l, r) ==
  IF Len(l.shard) # 3 \/ Len(r.shard) # 3 \/ l.dt # r.dt THEN Unexpected
  ELSE IF TotalDegree(l) # TotalDegree(r) THEN Aborted
  ELSE IF l.shard[1] # r.shard[1] \/ l.shard[3] # r.shard[2] THEN Unexpected
  ELSE IF l.discard # r.sum * r.shard[3].degree THEN Unexpected
  ELSE IF r.discard # l.sum * l.shard[2].degree THEN Unexpected
  ELSE LET outSum == TotalDegree(l) \div
                     (l.shard[1].degree * l.shard[2].degree * r.shard[3].degree)
       IN  IF outSum < 1 THEN Aborted
           ELSE Ok([shard   |-> <<l.shard[1], l.shard[2], r.shard[3]>>,
                    sum     |-> outSum,
                    discard |-> 1,
                    dt      |-> l.dt])

-----------------------------------------------------------------------------
(* Combine (ops/combine.cc): divides the degree of one shard dim.  Attrs:  *)
(* combine_dim (an ff_dim_t) and combine_degree.                           *)

CombineParOutputShape(a, ps) ==
  IF a.combine_dim >= Len(ps.shard) THEN Unexpected
  ELSE IF ps.shard[a.combine_dim + 1].degree % a.combine_degree # 0 THEN Unexpected
  ELSE Ok([ps EXCEPT !.shard[a.combine_dim + 1].degree = @ \div a.combine_degree])

-----------------------------------------------------------------------------
(* Embedding (ops/embedding.cc).  Attrs: num_entries, out_channels, aggr,  *)
(* data_type.                                                              *)

\* basic_check
EmbeddingBasicCheckFails(a, in) ==
  \/ in.dt \notin {"INT32", "INT64"}
  \/ a.aggr # "SUM"

\* get_output_shape(EmbeddingAttrs, TensorShape): the last dim becomes out_channels.
EmbeddingOutputShape(a, in) ==
  IF EmbeddingBasicCheckFails(a, in) THEN Unexpected
  ELSE Ok([dims |-> [in.dims EXCEPT ![Len(in.dims)] = a.out_channels], dt |-> a.data_type])

EmbeddingWeightsShape(a, in) ==
  IF EmbeddingBasicCheckFails(a, in) THEN Unexpected
  ELSE Ok([dims |-> <<a.num_entries, a.out_channels>>, dt |-> a.data_type])

(***************************************************************************)
(* get_output_shape(EmbeddingAttrs, ParallelTensorShape): the sum degree  *)
(* is the degree of the input's last dim, and the last dim's degree is the *)
(* input's discard-copy degree.  The input's sum degree is not looked at. *)
(***************************************************************************)
EmbeddingParOutputShape(a, ps) ==
  LET unpar == EmbeddingOutputShape(a, ReducedShape(ps))
      n == Len(ps.shard)
  IN  IF ~unpar.ok THEN unpar
      ELSE Ok(LiftWithDegrees(unpar.val, ps.shard[n].degree, 1,
                              [ShardDegrees(ps) EXCEPT ![n] = ps.discard]))

\* get_weights_shape(EmbeddingAttrs, ParallelTensorShape)
EmbeddingParWeightsShape(a, ps) ==
  LET unpar == EmbeddingWeightsShape(a, ReducedShape(ps))
  IN  IF ~unpar.ok THEN unpar
      ELSE Ok(LiftWithDegrees(unpar.val, 1, ProductOf(ShardDegrees(ps)),
                              <<1, ps.discard>>))

\* get_initializers(EmbeddingAttrs, maybe_initializer): one initializer.
EmbeddingInitializers(init) == <<IF init = "none" THEN "default" ELSE init>>

-----------------------------------------------------------------------------
(* LayerNorm (ops/layer_norm.cc).  Attrs: axes (a set of ff dims) and     *)
(* elementwise_affine.                                                     *)

LayerNormIncomingRoles(a) ==
  <<"INPUT">> \o (IF a.elementwise_affine THEN <<"WEIGHT", "WEIGHT">> ELSE <<>>)

\* check_input_shape(LayerNormAttrs, TensorShape)
LayerNormAxesOutOfBounds(a, n) == \E axis \in a.axes : axis >= n

\* The ff dims not in axes, in order (the filter of get_idxs).
NonAxisPositions(a, n) == SelectSeq([i \in 1..n |-> i], LAMBDA i : (i - 1) \notin a.axes)

LayerNormOutputShape(a, in) ==
  IF LayerNormAxesOutOfBounds(a, Len(in.dims)) THEN Unexpected ELSE Ok(in)

\* get_gamma_weights_shape: the dims of the input that are not normalized.
LayerNormGammaShape(a, in) ==
  IF LayerNormAxesOutOfBounds(a, Len(in.dims)) THEN Unexpected
  ELSE IF ~a.elementwise_affine THEN Unexpected
  ELSE LET pos == NonAxisPositions(a, Len(in.dims))
       IN  Ok([dims |-> [j \in 1..Len(pos) |-> in.dims[pos[j]]], dt |-> "FLOAT"])

\* get_beta_weights_shape tests elementwise_affine first, then delegates.
LayerNormBetaShape(a, in) ==
  IF ~a.elementwise_affine THEN Unexpected ELSE LayerNormGammaShape(a, in)

\* get_weight_shapes(LayerNormAttrs, ...): PROPAGATE_ERR of gamma then beta.
WeightPair(g, b) ==
  IF ~g.ok THEN g ELSE IF ~b.ok THEN b ELSE Ok(<<g.val, b.val>>)

LayerNormWeightShapes(a, in) ==
  WeightPair(LayerNormGammaShape(a, in), LayerNormBetaShape(a, in))

\* check_input_shape(LayerNormAttrs, ParallelTensorShape)
LayerNormParCheckFails(a, ps) ==
  \/ LayerNormAxesOutOfBounds(a, Len(ps.shard))
  \/ ps.sum # 1
  \/ ps.discard # 1
  \/ \E axis \in a.axes : ps.shard[axis + 1].degree # 1

LayerNormParOutputShape(a, ps) ==
  IF LayerNormParCheckFails(a, ps) THEN Unexpected ELSE Ok(ps)

\* Mutant: gamma keeps the normalized dims instead of the others.
LayerNormParGammaShapeOfAxes(a, ps) ==
  IF LayerNormParCheckFails(a, ps) THEN Unexpected
  ELSE IF ~a.elementwise_affine THEN Unexpected
  ELSE LET pos == SelectSeq([i \in 1..Len(ps.shard) |-> i], LAMBDA i : (i - 1) \in a.axes)
       IN  Ok([shard |-> [j \in 1..Len(pos) |-> ps.shard[pos[j]]],
               sum |-> 1, discard |-> 1, dt |-> "FLOAT"])

LayerNormParGammaShape(a, ps) ==
  IF LayerNormParCheckFails(a, ps) THEN Unexpected
  ELSE IF ~a.elementwise_affine THEN Unexpected
  ELSE LET pos == NonAxisPositions(a, Len(ps.shard))
       IN  Ok([shard |-> [j \in 1..Len(pos) |-> ps.shard[pos[j]]],
               sum |-> 1, discard |-> 1, dt |-> "FLOAT"])

LayerNormParBetaShape(a, ps) ==
  IF ~a.elementwise_affine THEN Unexpected ELSE LayerNormParGammaShape(a, ps)

LayerNormParWeightShapes(a, ps) ==
  WeightPair(LayerNormParGammaShape(a, ps), LayerNormParBetaShape(a, ps))

\* get_initializers(LayerNormAttrs): constant 1 and 0, or none.
LayerNormInitializers(a) == IF a.elementwise_affine THEN <<"ones", "zeros">> ELSE <<>>

-----------------------------------------------------------------------------
(* BatchNorm (ops/batch_norm.cc).  Attrs: affine.  The channel dim is ff  *)
(* dim 1.                                                                  *)

BatchNormIncomingRoles(a) ==
  <<"INPUT">> \o (IF a.affine THEN <<"WEIGHT", "WEIGHT">> ELSE <<>>)

\* check_input_shape(BatchNormAttrs, TensorShape)
BatchNormCheckFails(in) == Len(in.dims) < 2 \/ in.dt # "FLOAT"

BatchNormOutputShape(a, in) == IF BatchNormCheckFails(in) THEN Unexpected ELSE Ok(in)

BatchNormGammaShape(a, in) ==
  IF BatchNormCheckFails(in) THEN Unexpected
  ELSE IF ~a.affine THEN Unexpected
  ELSE Ok([dims |-> <<in.dims[2]>>, dt |-> "FLOAT"])

BatchNormBetaShape(a, in) == IF ~a.affine THEN Unexpected ELSE BatchNormGammaShape(a, in)

BatchNormWeightShapes(a, in) == WeightPair(BatchNormGammaShape(a, in), BatchNormBetaShape(a, in))

\* check_input_degrees: only the channel dim may be sharded.
BatchNormDegreesCheckFails(d) ==
  \/ Len(d.shard) < 2
  \/ d.sum # 1
  \/ d.discard # 1
  \/ \E i \in 1..Len(d.shard) : i # 2 /\ d.shard[i] # 1

BatchNormOutputDegrees(a, d) == IF BatchNormDegreesCheckFails(d) THEN Unexpected ELSE Ok(d)

BatchNormGammaDegrees(a, d) ==
  IF BatchNormDegreesCheckFails(d) THEN Unexpected
  ELSE IF ~a.affine THEN Unexpected
  ELSE Ok([sum |-> 1, discard |-> 1, shard |-> <<d.shard[2]>>])

\* Its own checks are the first two of gamma's, with the same outcome.
BatchNormBetaDegrees(a, d) == BatchNormGammaDegrees(a, d)

\* The parallel functions: the unparallel shape first, then the degrees.
LiftResult(unpar, degrees) ==
  IF ~unpar.ok THEN unpar
  ELSE IF ~degrees.ok THEN degrees
  ELSE Ok(LiftWithDegreeRecord(unpar.val, degrees.val))

BatchNormParOutputShape(a, ps) ==
  LiftResult(BatchNormOutputShape(a, ReducedShape(ps)),
             BatchNormOutputDegrees(a, ParallelDegrees(ps)))

BatchNormParGammaShape(a, ps) ==
  LiftResult(BatchNormGammaShape(a, ReducedShape(ps)),
             BatchNormGammaDegrees(a, ParallelDegrees(ps)))

BatchNormParBetaShape(a, ps) ==
  LiftResult(BatchNormBetaShape(a, ReducedShape(ps)),
             BatchNormBetaDegrees(a, ParallelDegrees(ps)))

BatchNormParWeightShapes(a, ps) ==
  WeightPair(BatchNormParGammaShape(a, ps), BatchNormParBetaShape(a, ps))

BatchNormInitializers(a) == IF a.affine THEN <<"ones", "zeros">> ELSE <<>>

-----------------------------------------------------------------------------
(* parse_attention_input_shape (ops/attention/multihead_attention_inputs): *)
(* q, k and v are 3-d (batch, seq, size) and agree on the sequence       *)
(* length, the batch size and the datatype.                                *)

AttentionInputs(q, k, v) ==
  IF \E t \in {q, k, v} : Len(t.dims) # 3 THEN Unexpected
  ELSE IF Cardinality({q.dims[2], k.dims[2], v.dims[2]}) # 1 THEN Unexpected
  ELSE IF Cardinality({q.dims[1], k.dims[1], v.dims[1]}) # 1 THEN Unexpected
  ELSE IF Cardinality({q.dt, k.dt, v.dt}) # 1 THEN Unexpected
  ELSE Ok([batch |-> q.dims[1], seq |-> q.dims[2], qsize |-> q.dims[3],
           ksize |-> k.dims[3], vsize |-> v.dims[3], dt |-> q.dt])

-----------------------------------------------------------------------------
(* datatype.cc *)

\* size_of_datatype, in bytes (sizeof on the target: bool 1, float 4).
SizeOfDatatype(dt) ==
  CASE dt = "BOOL" -> 1 [] dt = "INT32" -> 4 [] dt = "INT64" -> 8
    [] dt = "HALF" -> 2 [] dt = "FLOAT" -> 4 [] dt = "DOUBLE" -> 8

\* Mutant: FLOAT may also be narrowed to HALF.
StrictPromotionsNarrowing(src) ==
  CASE src = "BOOL"  -> {"INT32", "INT64", "HALF", "FLOAT", "DOUBLE"}
    [] src = "INT32" -> {"INT64"}
    [] src = "HALF"  -> {"FLOAT", "DOUBLE"}
    [] src = "FLOAT" -> {"HALF", "DOUBLE"}
    [] OTHER         -> {}

\* The allowed sets of can_strictly_promote_datatype_from_to.
StrictPromotions(src) ==
  CASE src = "BOOL"  -> {"INT32", "INT64", "HALF", "FLOAT", "DOUBLE"}
    [] src = "INT32" -> {"INT64"}
    [] src = "HALF"  -> {"FLOAT", "DOUBLE"}
    [] src = "FLOAT" -> {"DOUBLE"}
    [] OTHER         -> {}

CanStrictlyPromote(src, dst) == dst \in StrictPromotions(src)

\* The allowed sets of can_torch_strictly_promote_datatype_from_to.
TorchPromotions(src) ==
  CASE src = "BOOL"   -> {"INT32", "INT64", "HALF", "FLOAT", "DOUBLE"}
    [] src = "INT32"  -> {"INT64", "HALF", "FLOAT", "DOUBLE"}
    [] src = "INT64"  -> {"INT32", "HALF", "FLOAT", "DOUBLE"}
    [] src = "HALF"   -> {"FLOAT", "DOUBLE"}
    [] src = "FLOAT"  -> {"HALF", "DOUBLE"}
    [] src = "DOUBLE" -> {"HALF", "FLOAT"}

CanTorchStrictlyPromote(src, dst) == dst \in TorchPromotions(src)

=============================================================================
