CONSTANTS
  Conv2DAttrs <- MCConv2DAttrs
  Conv2DInputs <- MCConv2DInputs
  Initializers <- MCInitializers
  BatchMatmulInputs <- MCBatchMatmulInputs
  CombineAttrs <- MCCombineAttrs
  CombineInputs <- MCCombineInputs
  EmbeddingAttrs <- MCEmbeddingAttrs
  EmbeddingInputs <- MCEmbeddingInputs
  LayerNormAttrs <- MCLayerNormAttrs
  LayerNormInputs <- MCLayerNormInputs
  BatchNormAttrs <- MCBatchNormAttrs
  BatchNormInputs <- MCBatchNormInputs
  AttentionInputShapes <- MCAttentionInputShapes
SPECIFICATION OperatorsSpec
INVARIANTS ParallelAgreesWithSequential DegreeConserved StrictPromotionWidens WeightsMatchRolesAndInitializers ForwardWritesOnlyOutputs BatchMatmulKernelWithinBuffers InvokedTaskRegistered
