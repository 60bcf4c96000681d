CONSTANTS
  SplitAttrs <- MCSplitAttrs
  InputDims <- MCInputDims
  MaxNumOutputs = 2
SPECIFICATION Spec
INVARIANT BlockSizesMatchReference
