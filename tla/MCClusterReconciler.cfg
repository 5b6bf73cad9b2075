SPECIFICATION ReconcilerSpec
CONSTANTS
  k1 = k1
  k2 = k2
  Clusters <- SomeClusters
  NoCluster <- Nobody
  MaxWorkloads = 2
  MaxRetries = 2
  Calls <- TwoCalls
  MaxCalls = 3
  MaxEdits = 2
SYMMETRY CallSymmetry
INVARIANTS
  RetriesMeanProgress
  PlacementsFit
PROPERTIES
  PlansAreCurrent
  PlansAreStable
CHECK_DEADLOCK FALSE
