CONSTANTS
  k1 = k1
  k2 = k2
  mv1 = mv1
  mv2 = mv2
  NoView = NoView
  Views <- MCViews
  Root <- ParallelPair
  RootResources <- TwoNodes
  RootConstraints <- FreeConstraints
  NumCalls = 1
  AllowedViews <- TestAllowedViews
  OpCost <- TestOpCost
  CommCost <- TestCommCost
  ResourceSplits <- TestResourceSplits
SPECIFICATION Spec
CHECK_DEADLOCK FALSE
INVARIANTS TestParallelExpectation
