------------------------ MODULE MCComputationGraph ------------------------
(***************************************************************************)
(* A 1 x 2 x 2 x 2 image and the kernel (2 x 2 x 1 x 1) and bias (2)      *)
(* shapes of a 1 x 1 convolution to 2 channels, which keeps the image     *)
(* shape, so a Conv2D output can feed the next Conv2D.                    *)
(***************************************************************************)
EXTENDS ComputationGraph

MCInputShapes ==
  {[dims |-> d, dt |-> "FLOAT"] : d \in {<<1, 2, 2, 2>>, <<2, 2, 1, 1>>, <<2>>}}

MCConv2DAttrs ==
  [out_channels: {2}, kernel_h: {1}, kernel_w: {1}, stride_h: {1}, stride_w: {1},
   padding_h: {0}, padding_w: {0}, use_bias: BOOLEAN]

=============================================================================
