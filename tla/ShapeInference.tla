--------------------------- MODULE ShapeInference ---------------------------
(***************************************************************************)
(* The shape-inference calls of op-attrs, one action per operator.  Each   *)
(* action takes attrs and parallel input shapes from the constant sets and *)
(* records in `call` what the parallel functions return, next to what the *)
(* sequential functions return on the reduced (whole-tensor) inputs.      *)
(* The functions are pure: a call depends on nothing but its arguments.  *)
(* A state is the caller idle or the result of its last call; Return     *)
(* hands the result back and the caller is idle again.                   *)
(***************************************************************************)
EXTENDS OpShapeInference

CONSTANTS
  Conv2DAttrs, Conv2DInputs,           \* attrs records and 4-d parallel inputs
  Initializers,                        \* "none" or an initializer, per argument
  BatchMatmulInputs,                   \* parallel inputs, for lhs and rhs
  CombineAttrs, CombineInputs,
  EmbeddingAttrs, EmbeddingInputs,
  LayerNormAttrs, LayerNormInputs,
  BatchNormAttrs, BatchNormInputs,
  AttentionInputShapes                 \* TensorShapes for q, k and v

VARIABLE call

Reduced(ps) == ReducedShape(ps)
NoWeights == Ok(<<>>)

\* A call's record: the operator, its attrs and parallel inputs, the parallel and the
\* sequential output and weight shapes, the incoming-tensor roles and the initializers
\* of the weights (<<>> and Ok(<<>>) for an operator that has neither).
Call(op, attrs, ins, out, weights, seqOut, seqWeights, roles, inits) ==
  [op |-> op, attrs |-> attrs, ins |-> ins, out |-> out, weights |-> weights,
   seqOut |-> seqOut, seqWeights |-> seqWeights, roles |-> roles, inits |-> inits]

Idle == Call("none", [none |-> 0], <<>>, Unexpected, NoWeights, Unexpected, NoWeights,
             <<>>, NoWeights)

Init == call = Idle

InferConv2D ==
  /\ call = Idle
  /\ \E a \in Conv2DAttrs, ps \in Conv2DInputs, ki, bi \in Initializers :
       call' = Call("conv2d", a, <<ps>>,
                    Conv2DParOutputShape(a, ps), Conv2DParWeightShapes(a, ps),
                    Conv2DOutputShape(a, Reduced(ps)),
                    Ok(Conv2DWeightShapes(a, Reduced(ps))),
                    Conv2DIncomingRoles(a), Conv2DInitializers(a, ki, bi))

InferBatchMatmul ==
  /\ call = Idle
  /\ \E l, r \in BatchMatmulInputs :
       call' = Call("batch_matmul", [none |-> 0], <<l, r>>,
                    BatchMatmulParOutputShape(l, r), NoWeights,
                    BatchMatmulOutputShape(Reduced(l), Reduced(r)), NoWeights,
                    <<>>, NoWeights)

\* Combine has no sequential counterpart: it changes no data shape.
InferCombine ==
  /\ call = Idle
  /\ \E a \in CombineAttrs, ps \in CombineInputs :
       call' = Call("combine", a, <<ps>>, CombineParOutputShape(a, ps), NoWeights,
                    Ok(Reduced(ps)), NoWeights, <<>>, NoWeights)

\* The single weights shape is returned on its own; the record holds it as a sequence.
InferEmbedding ==
  /\ call = Idle
  /\ \E a \in EmbeddingAttrs, ps \in EmbeddingInputs, init \in Initializers :
       LET w == EmbeddingParWeightsShape(a, ps)
           sw == EmbeddingWeightsShape(a, Reduced(ps))
       IN  call' = Call("embedding", a, <<ps>>, EmbeddingParOutputShape(a, ps),
                        IF w.ok THEN Ok(<<w.val>>) ELSE w,
                        EmbeddingOutputShape(a, Reduced(ps)),
                        IF sw.ok THEN Ok(<<sw.val>>) ELSE sw,
                        <<>>, Ok(EmbeddingInitializers(init)))

InferLayerNorm ==
  /\ call = Idle
  /\ \E a \in LayerNormAttrs, ps \in LayerNormInputs :
       call' = Call("layer_norm", a, <<ps>>,
                    LayerNormParOutputShape(a, ps), LayerNormParWeightShapes(a, ps),
                    LayerNormOutputShape(a, Reduced(ps)),
                    LayerNormWeightShapes(a, Reduced(ps)),
                    LayerNormIncomingRoles(a), Ok(LayerNormInitializers(a)))

InferBatchNorm ==
  /\ call = Idle
  /\ \E a \in BatchNormAttrs, ps \in BatchNormInputs :
       call' = Call("batch_norm", a, <<ps>>,
                    BatchNormParOutputShape(a, ps), BatchNormParWeightShapes(a, ps),
                    BatchNormOutputShape(a, Reduced(ps)),
                    BatchNormWeightShapes(a, Reduced(ps)),
                    BatchNormIncomingRoles(a), Ok(BatchNormInitializers(a)))

\* parse_attention_input_shape has only a sequential form.
ParseAttentionInputs ==
  /\ call = Idle
  /\ \E q, k, v \in AttentionInputShapes :
       call' = Call("attention", [none |-> 0], <<>>, Unexpected, NoWeights,
                    AttentionInputs(q, k, v), NoWeights, <<>>, NoWeights)

\* can_strictly_promote_datatype_from_to and its torch variant, on one pair;
\* the answers are kept with the arguments.
QueryPromotion ==
  /\ call = Idle
  /\ \E src, dst \in DataTypes :
       call' = Call("promote",
                    [src |-> src, dst |-> dst, strict |-> CanStrictlyPromote(src, dst),
                     torch |-> CanTorchStrictlyPromote(src, dst)],
                    <<>>, Unexpected, NoWeights, Unexpected, NoWeights, <<>>, NoWeights)

\* The caller takes the result; the next call starts from idle.
Return ==
  /\ call # Idle
  /\ call' = Idle

Next ==
  \/ InferConv2D
  \/ InferBatchMatmul
  \/ InferCombine
  \/ InferEmbedding
  \/ InferLayerNorm
  \/ InferBatchNorm
  \/ ParseAttentionInputs
  \/ QueryPromotion
  \/ Return

Spec == Init /\ [][Next]_call

-----------------------------------------------------------------------------
(* Properties *)

(***************************************************************************)
(* A successful parallel inference describes the tensors the sequential   *)
(* inference gives for the whole input: the reduced shape of the parallel *)
(* output, and of each parallel weight, is the sequential one, and the    *)
(* sequential inference succeeds whenever the parallel one does.  The     *)
(* parallel functions build their result from get_reduced_shape (conv2d, *)
(* embedding, batch_norm) or by hand (batch_matmul, layer_norm's gamma). *)
(***************************************************************************)
ParallelAgreesWithSequential ==
  /\ call.out.ok => call.seqOut.ok /\ Reduced(call.out.val) = call.seqOut.val
  /\ call.weights.ok =>
       /\ call.seqWeights.ok
       /\ Len(call.weights.val) = Len(call.seqWeights.val)
       /\ \A i \in DOMAIN call.weights.val :
            Reduced(call.weights.val[i]) = call.seqWeights.val[i]

(***************************************************************************)
(* An operator runs on the devices its input is spread over: every output *)
(* and weight shape of a successful parallel inference has the total      *)
(* parallel degree (shard degrees times sum times discard-copy degree) of *)
(* the input (for batch_matmul, of lhs).  Combine is the one operator     *)
(* meant to change it: it divides it by combine_degree.                   *)
(***************************************************************************)
DegreeConserved ==
  LET d == IF call.op = "combine"
           THEN TotalDegree(call.ins[1]) \div call.attrs.combine_degree
           ELSE TotalDegree(call.ins[1])
  IN  /\ call.out.ok /\ call.op # "attention" => TotalDegree(call.out.val) = d
      /\ call.weights.ok =>
           \A i \in DOMAIN call.weights.val : TotalDegree(call.weights.val[i]) = d

(***************************************************************************)
(* datatype.cc: a strict promotion answered by                            *)
(* can_strictly_promote_datatype_from_to is never from a type to itself   *)
(* nor back again, chains of promotions are promotions, it widens         *)
(* size_of_datatype, and can_torch_strictly_promote_datatype_from_to      *)
(* allows it as well.                                                      *)
(***************************************************************************)
StrictPromotionWidens ==
  call.op = "promote" /\ call.attrs.strict =>
    LET s == call.attrs.src
        d == call.attrs.dst
    IN  /\ s # d /\ ~CanStrictlyPromote(d, s)
        /\ \A m \in DataTypes : CanStrictlyPromote(d, m) => CanStrictlyPromote(s, m)
        /\ SizeOfDatatype(s) < SizeOfDatatype(d)
        /\ call.attrs.torch

\* The number of weights the incoming-tensor roles ask for.
WeightRoleCount(roles) == Len(SelectSeq(roles, LAMBDA r : r = "WEIGHT"))

(***************************************************************************)
(* The three descriptions of an operator's weights agree: when the input  *)
(* passes the operator's checks, get_weight_shapes (sequential and        *)
(* parallel, when it succeeds) returns as many shapes as the incoming-    *)
(* tensor roles name WEIGHT inputs, and get_initializers (when it does    *)
(* not abort) gives one initializer per weight.  Each is a separate       *)
(* function of the attrs (use_bias, elementwise_affine, affine) in the    *)
(* operator's .cc file; computation_graph's add_layer pairs them up.      *)
(***************************************************************************)
WeightsMatchRolesAndInitializers ==
  call.op \in {"conv2d", "embedding", "layer_norm", "batch_norm"} /\ call.seqOut.ok =>
    LET n == IF call.op = "embedding" THEN 1 ELSE WeightRoleCount(call.roles)
    IN  /\ n > 0 => call.seqWeights.ok /\ Len(call.seqWeights.val) = n
        /\ call.weights.ok => Len(call.weights.val) = n
        /\ call.inits.ok => Len(call.inits.val) = n

\* The number of positions of a kernel k with stride s in a padded input.
WindowCount(n, p, k, s) == Cardinality({i \in 0..(n + 2 * p - k) : i % s = 0})

(***************************************************************************)
(* get_output_shape(Conv2DAttrs, TensorShape) follows PyTorch's Conv2d: a *)
(* successful call gives, in h and w, the number of positions of the      *)
(* kernel in the padded input (zero positions is an error).               *)
(***************************************************************************)
Conv2DOutputCountsWindows ==
  call.op = "conv2d" /\ call.seqOut.ok =>
    LET in == Reduced(call.ins[1])
        a == call.attrs
    IN  /\ call.seqOut.val.dims[3] = WindowCount(in.dims[3], a.padding_h, a.kernel_h, a.stride_h)
        /\ call.seqOut.val.dims[4] = WindowCount(in.dims[4], a.padding_w, a.kernel_w, a.stride_w)

=============================================================================
