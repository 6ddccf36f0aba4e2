SPECIFICATION FairSpec
CONSTANTS
  Plans <- MCPlans
  MaxReorder = 1
INVARIANTS StreamsInOrder DataFindsFlow
PROPERTIES EndsTogether ChunksArrive CloseReturns
CHECK_DEADLOCK FALSE
