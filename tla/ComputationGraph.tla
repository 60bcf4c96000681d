-------------------------- MODULE ComputationGraph --------------------------
(***************************************************************************)
(* The ComputationGraph of pcg/computation_graph.cc, built layer by layer. *)
(* A layer is a node labelled with its LayerAttrs (op attrs and optional   *)
(* name) whose incoming values are its inputs followed by its weights;    *)
(* every output of a layer is a tensor labelled with its TensorAttrs      *)
(* (shape and create_grad).  Layers and tensors are numbered in the order *)
(* they are added, so a layer's incoming tensors always come before it.   *)
(* The operators are input layers and Conv2D; the op dispatchers          *)
(* (get_output_shapes, get_weight_shapes, get_incoming_tensor_roles) are  *)
(* not part of the repository, and are taken to call the Conv2D          *)
(* functions of op-attrs/ops/conv_2d.cc and to throw on a failure.        *)
(***************************************************************************)
EXTENDS OpShapeInference

CONSTANTS
  InputShapes,     \* the TensorShapes of input layers
  Conv2DAttrs,     \* the Conv2DAttrs of Conv2D layers
  Names,           \* the layer names used, besides no name
  MaxLayers        \* bound on the number of layers

NoName == "none"

VARIABLES
  layers,          \* sequence of [op, attrs, name, incoming: sequence of tensor numbers]
  tensors          \* sequence of [shape, create_grad, layer]

vars == <<layers, tensors>>

Init ==
  /\ layers = <<>>
  /\ tensors = <<>>

(***************************************************************************)
(* raw_graph.add_node(layer_attrs, inputs ++ weights, output_attrs): the  *)
(* new layer and one tensor per output shape, zipped with the output      *)
(* flags (zip_with_strict: the lengths are equal at every call here).     *)
(***************************************************************************)
AddNode(op, attrs, name, inputs, weights, outShapes, flags) ==
  /\ layers' = Append(layers, [op |-> op, attrs |-> attrs, name |-> name,
                               incoming |-> inputs \o weights])
  /\ tensors' = tensors \o [i \in 1..Len(outShapes) |->
                   [shape |-> outShapes[i], create_grad |-> flags[i],
                    layer |-> Len(layers) + 1]]

\* add_input_layer: an unnamed input layer whose tensor has no gradient.
AddInputLayer ==
  /\ Len(layers) < MaxLayers
  /\ \E s \in InputShapes :
       AddNode("input", [shape |-> s], NoName, <<>>, <<>>, <<s>>, <<"NO">>)

\* add_input_layer_with_grad: the same, with a gradient.
AddInputLayerWithGrad ==
  /\ Len(layers) < MaxLayers
  /\ \E s \in InputShapes :
       AddNode("input", [shape |-> s], NoName, <<>>, <<>>, <<s>>, <<"YES">>)

\* The weight lists a caller may pass: up to two existing tensors.
WeightLists == UNION {[1..k -> DOMAIN tensors] : k \in 0..2}

(***************************************************************************)
(* add_layer for a Conv2D layer on one input tensor, with the given       *)
(* weights and no output flags (every output gets a gradient).  The input *)
(* shapes and provided weight shapes are read from the graph, the         *)
(* expected weight shapes computed, and the output shapes inferred; the   *)
(* call throws, leaving the graph as it was, when the input is not 4-d or *)
(* the inferred output size is below 1.  Nothing compares the provided    *)
(* weights with the expected ones.                                        *)
(***************************************************************************)
AddLayer ==
  /\ Len(layers) < MaxLayers
  /\ \E a \in Conv2DAttrs, i \in DOMAIN tensors, ws \in WeightLists, name \in Names \cup {NoName} :
       LET in == tensors[i].shape
           out == Conv2DOutputShape(a, in)
       IN  /\ Len(in.dims) = 4
           /\ out.ok
           /\ AddNode("conv2d", a, name, <<i>>, ws, <<out.val>>, <<"YES">>)

Next ==
  \/ AddInputLayer
  \/ AddInputLayerWithGrad
  \/ AddLayer

Spec == Init /\ [][Next]_vars

-----------------------------------------------------------------------------
(* Properties *)

(***************************************************************************)
(* The role queries.  get_incoming_tensor_roles of a layer (taken, as for *)
(* add_layer, to call the Conv2D function; an input layer has none);      *)
(* get_incoming_tensors_with_role asserts that there are as many incoming *)
(* tensors as roles, zips them and keeps the tensors of the desired role. *)
(***************************************************************************)
AssertFails == "assert"

IncomingRoles(l) ==
  IF layers[l].op = "conv2d" THEN Conv2DIncomingRoles(layers[l].attrs) ELSE <<>>

GetIncomingTensors(l) == layers[l].incoming

GetIncomingTensorsWithRole(l, role) ==
  IF Len(GetIncomingTensors(l)) # Len(IncomingRoles(l))
  THEN AssertFails
  ELSE LET kept == SelectSeq(Zip(GetIncomingTensors(l), IncomingRoles(l)),
                             LAMBDA p : p[2] = role)
       IN  [k \in 1..Len(kept) |-> kept[k][1]]

GetIncomingInputs(l) == GetIncomingTensorsWithRole(l, "INPUT")
GetIncomingWeights(l) == GetIncomingTensorsWithRole(l, "WEIGHT")

\* get_tensor_attrs(cg, t).shape of each tensor of a list.
ShapesOf(ts) == [k \in DOMAIN ts |-> tensors[ts[k]].shape]

(***************************************************************************)
(* Every Conv2D layer of the graph has the weights its roles describe:    *)
(* get_incoming_weights does not fail its assert, and returns tensors of  *)
(* the shapes get_weight_shapes gives for the layer's input, the shapes   *)
(* add_layer computes as expected_weight_shapes.                          *)
(***************************************************************************)
WeightsAsExpected ==
  \A l \in DOMAIN layers :
    layers[l].op = "conv2d" =>
      /\ GetIncomingWeights(l) # AssertFails
      /\ ShapesOf(GetIncomingWeights(l)) =
           Conv2DWeightShapes(layers[l].attrs,
                              tensors[GetIncomingInputs(l)[1]].shape)

=============================================================================
