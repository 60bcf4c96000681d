CONSTANTS
  InputShapes <- MCInputShapes
  Conv2DAttrs <- MCConv2DAttrs
  Names = {"conv"}
  MaxLayers = 3
SPECIFICATION Spec
INVARIANT WeightsAsExpected
CHECK_DEADLOCK FALSE
